---- MODULE Spec2Model ----
(***************************************************************************)
(* torq: the profiling-session executor (command_executor.py), the         *)
(* device-state validation of a profiler command (command.py) and the      *)
(* device operations they drive (device.py), as one state machine.         *)
(*                                                                         *)
(* One executor runs one command against one device.  The executor is a    *)
(* sequential program; its position is pc.  Two other actors move on their *)
(* own: the device (a user switch completes, the tracing tool exits, the   *)
(* device reconnects or finishes booting) and the operator, whose          *)
(* interrupt runs signal_handler between any two steps of the executor.    *)
(***************************************************************************)
EXTENDS Integers, Sequences, FiniteSets, TLC

\* ------------------------------------------------------------------ bounds

\* Largest --runs value explored.
MaxRuns == 3
\* Largest --runs value explored with the user-switch event, whose sessions
\* branch on the device's user at every run.
MaxSwitchRuns == 2
\* Interrupts (SIGINT/SIGTERM) the operator delivers in one session.
MaxInterrupts == 2
\* Checks a bounded wait makes before its timeout has elapsed
\* (timeout / POLLING_INTERVAL_SECS in the code, scaled down).
MaxPolls == 2
\* poll_is_task_completed on its own: the largest timeout and interval, and
\* the most a sleep or a check runs late, in ticks of the clock.
MaxTimeout == 3
MaxInterval == 2
MaxOvershoot == 1

\* --------------------------------------------------------------- constants

\* An argument that was not passed (Python None) in a user-id field.
NoUser == -1
\* No run: the flag has not been raised.
NoRun == -1

\* The users that exist on the device (pm list users), and the users it may
\* be at when the session starts.
DeviceUsers == {0, 10, 11}
InitialUsers == {0, 11}

\* The values --from-user and --to-user take in the explored commands.
FromUsers == {NoUser, 10, 11, 12}
ToUsers == {11, 12}

\* ftrace events: one that the predefined config holds, one that it lacks.
PredefinedFtraceEvents == {"power/cpu_idle"}
OtherFtraceEvents == {"mock-ftrace-event"}

VARIABLES
  pc,              \* the executor's position in execute / execute_command
  run,             \* the loop variable of execute_command (0 before the loop)
  command,         \* the ProfilerCommand
  trace_cancelled, \* ProfilerCommandExecutor.trace_cancelled
  result,          \* what execute returned or raised ("pending" while running)
  host_file,       \* run whose host trace filename is held (0: None)
  polls,           \* checks made by the bounded wait in progress
  stop_reason,     \* why stop_process is waiting: "trigger_error" or "after_wait"
  interrupts,      \* interrupts delivered so far
  args,            \* the argparse Namespace, as verify_args leaves it
  argv,            \* history: the arguments as parse_args returned them
  poll,            \* a call of poll_is_task_completed followed on its own clock
  adb,             \* a call of check_device_connection followed on its own
  config,          \* the config execute_command holds (create_config's result)
  host_files,      \* the trace files on the host: [run, kind], kind "raw" or "gecko"
  cancelled_run,   \* history: the value of `run` when the flag was last raised
  connected,       \* whether adb lists the device at the start
  device_state,    \* "online", "adbd_restart" (after adb root) or "rebooting"
  boot_completed,  \* sys.boot_completed = 1
  boot_prop,       \* persist.debug.perfetto.boottrace = 1
  device_user,     \* am get-current-user
  pending_user,    \* the user an issued am switch-user is switching to
  tool_running,    \* the profiler has a pid on the device
  process_exited,  \* the host-side process of the trace has exited
  app_installed,   \* command.app is among pm list packages
  app_running,     \* command.app has a pid on the device
  app_is_service,  \* am start of command.app writes to stderr
  log,             \* history: the hooks and device operations performed
  sig_wait         \* history: runs during whose wait an interrupt arrived

vars == <<pc, run, command, trace_cancelled, result, host_file, polls,
          stop_reason, interrupts, args, argv, poll, adb, config, host_files, cancelled_run, connected, device_state, boot_completed,
          boot_prop, device_user, pending_user, tool_running, process_exited,
          app_installed, app_running, app_is_service, log, sig_wait>>

deviceVars == <<device_state, boot_completed, boot_prop, device_user,
                pending_user, tool_running, process_exited, app_running>>

\* ----------------------------------------------------------------- history

Ev(op, arg) == [op |-> op, run |-> run, arg |-> arg]

Logged(l, op) == {i \in DOMAIN l : l[i].op = op}

Count(op) == Cardinality(Logged(log, op))

CountRun(op, r) == Cardinality({i \in Logged(log, op) : log[i].run = r})

\* Every occurrence of op a precedes every occurrence of op b.
Before(a, b) == \A i \in Logged(log, a), j \in Logged(log, b) : i < j

\* ---------------------------------------------------------------- commands

\* --dur-ms as passed (torq's default), and the duration_ms a custom config
\* file of the explored inputs holds.
DefaultDurMs == 10000
\* MIN_DURATION_MS
MinDurationMs == 3000
FileDurMs == 5000
\* The duration_ms of a custom config file that traces for a shorter time
\* than --dur-ms may ask for.
FileShortDurMs == 1000

PerfettoConfigs == {"default", "file_plain", "file_duration", "file_short_duration",
                    "file_bad_duration"}

\* --app: the package passed, or not passed (None).
AppPackage == "android.package.name"
NoApp == "none"

\* The (--runs, --ui) pairs verify_args lets through: ui defaults to
\* runs = 1 and --ui with runs > 1 is rejected.
RunsAndUi == {<<1, TRUE>>, <<1, FALSE>>} \cup {<<n, FALSE>> : n \in 2..MaxRuns}
SwitchRunsAndUi == {ru \in RunsAndUi : ru[1] <= MaxSwitchRuns}

\* The (excluded, included) ftrace lists explored: none, an excluded event the
\* config lacks, an included event the config already holds.
FtraceLists == {<<{}, {}>>, <<OtherFtraceEvents, {}>>, <<{}, PredefinedFtraceEvents>>}

\* Lists the predefined config takes: an excluded event it holds, an included
\* event it lacks, or both.
ValidFtraceLists == {<<PredefinedFtraceEvents, {}>>, <<{}, OtherFtraceEvents>>,
                     <<PredefinedFtraceEvents, OtherFtraceEvents>>}

ProfilerCommand(event, profiler, ru, cfg, ft, from, to) ==
  [event |-> event, profiler |-> profiler, runs |-> ru[1], use_ui |-> ru[2],
   dur_ms |-> DefaultDurMs, between_dur_ms |-> DefaultDurMs,
   app |-> IF event = "app-startup" THEN AppPackage ELSE NoApp,
   perfetto_config |-> cfg,
   excluded_ftrace_events |-> ft[1], included_ftrace_events |-> ft[2],
   from_user |-> from, to_user |-> to, original_user |-> NoUser]

\* The commands create_profiler_command builds from arguments verify_args
\* accepted: user ids only with user-switch, ftrace lists and a perfetto
\* config only with the perfetto profiler.  A custom config file is explored
\* with the custom event and one run.
Commands ==
  { ProfilerCommand(e, p, ru, cfg, ft, from, to) :
      e \in {"custom", "boot", "app-startup"}, p \in {"perfetto", "simpleperf"},
      ru \in RunsAndUi, cfg \in {"default"}, ft \in {<<{}, {}>>},
      from \in {NoUser}, to \in {NoUser} }
  \cup
  { ProfilerCommand("user-switch", p, ru, "default", <<{}, {}>>, from, to) :
      p \in {"perfetto", "simpleperf"}, ru \in SwitchRunsAndUi,
      from \in FromUsers, to \in ToUsers }
  \cup
  { ProfilerCommand(e, "perfetto", ru, "default", ft, NoUser, NoUser) :
      e \in {"custom", "boot", "app-startup"}, ru \in RunsAndUi,
      ft \in FtraceLists }
  \cup
  { ProfilerCommand("user-switch", "perfetto", ru, "default", ft, 10, 11) :
      ru \in SwitchRunsAndUi, ft \in FtraceLists }
  \cup
  { ProfilerCommand("custom", "perfetto", <<1, ui>>, cfg, <<{}, {}>>, NoUser, NoUser) :
      ui \in BOOLEAN, cfg \in PerfettoConfigs }
  \cup
  { ProfilerCommand("custom", "perfetto", <<1, FALSE>>, "default", ft, NoUser, NoUser) :
      ft \in ValidFtraceLists }

\* ---------------------------------------------------------------- arguments

\* args.ui (argparse.BooleanOptionalAction): --ui, --no-ui, or not passed.
UiValues == {"true", "false", "none"}

\* The argparse Namespace of a profiler command.  A list option that was not
\* passed (None) is the empty sequence: action='append' builds no empty list.
\* --dur-ms and --between-dur-ms are at their default and --app is passed
\* exactly with app-startup, unless an argument set says otherwise.
Arguments(event, profiler, runs, ui, cfg, excluded, included, from, to) ==
  [event |-> event, profiler |-> profiler, runs |-> runs, ui |-> ui,
   dur_ms |-> DefaultDurMs, between_dur_ms |-> DefaultDurMs,
   app |-> IF event = "app-startup" THEN AppPackage ELSE NoApp,
   perfetto_config |-> cfg,
   excluded_ftrace_events |-> excluded, included_ftrace_events |-> included,
   from_user |-> from, to_user |-> to]

\* The list an accepted command's set of ftrace events came from.
ListOf(events) == IF events = {} THEN <<>> ELSE <<CHOOSE e \in events : TRUE>>

\* The arguments of command c, with `ui` as passed.
ArgumentsOf(c, ui) ==
  Arguments(c.event, c.profiler, c.runs, ui, c.perfetto_config,
            ListOf(c.excluded_ftrace_events), ListOf(c.included_ftrace_events),
            c.from_user, c.to_user)

\* Arguments verify_args accepts: those of Commands with --ui / --no-ui
\* passed, and with the option left out for the events other than
\* user-switch.
AcceptedArguments ==
  { ArgumentsOf(c, IF c.use_ui THEN "true" ELSE "false") : c \in Commands }
  \cup
  { ArgumentsOf(c, "none") : c \in {d \in Commands : /\ d.use_ui = (d.runs = 1)
                                     /\ d.event # "user-switch"} }
  \cup
  { [Arguments("custom", "perfetto", d[1], "none", "default", <<>>, <<>>, NoUser, NoUser)
       EXCEPT !.dur_ms = d[2], !.between_dur_ms = d[3]] :
      d \in {<<1, MinDurationMs, DefaultDurMs>>, <<2, MinDurationMs, DefaultDurMs>>,
              <<2, DefaultDurMs, MinDurationMs>>, <<2, MinDurationMs, MinDurationMs>>} }

\* Lists that name an ftrace event twice.
FtraceEvents == PredefinedFtraceEvents \cup OtherFtraceEvents
DuplicateLists ==
  {<<a, a>> : a \in FtraceEvents} \cup {<<a, b, a>> : a, b \in FtraceEvents}

\* No call of poll_is_task_completed is followed on its own.
NoPoll == [timed_out_limit |-> 0, interval |-> 0, true_at |-> {}, elapsed |-> 0,
           checks |-> <<>>, returned |-> "none"]

\* A serial that was not given (None).
NoSerial == "none"

\* No call of check_device_connection is followed on its own.
NoAdb == [devices |-> {}, serial |-> NoSerial, given |-> NoSerial,
          android_serial |-> NoSerial, error |-> "pending"]

\* No config (None): create_config was not called or returned an error.  A
\* config is the builder it came from, how many times its text names each
\* ftrace event, and the values of its duration_ms lines in their order.
NoConfig == [builder |-> "none", ftrace_events |-> [e \in FtraceEvents |-> 0],
             durations |-> <<>>]

\* Arguments verify_args rejects: a bad --runs / --ui pair, user ids without
\* user-switch or user-switch without --to-user, a config or ftrace lists
\* with simpleperf, duplicates in an ftrace list, an event in both lists.
RejectedArguments ==
  { Arguments("custom", p, 0, ui, "default", <<>>, <<>>, NoUser, NoUser) :
      p \in {"perfetto", "simpleperf"}, ui \in UiValues }
  \cup
  { Arguments(e, "perfetto", n, "true", "default", <<>>, <<>>, NoUser, NoUser) :
      e \in {"custom", "boot", "app-startup"}, n \in 2..MaxRuns }
  \cup
  { Arguments("custom", "perfetto", 1, "none", "default", <<>>, <<>>, ft[1], ft[2]) :
      ft \in {<<10, NoUser>>, <<NoUser, 11>>, <<10, 11>>} }
  \cup
  { Arguments("user-switch", "perfetto", 1, "none", "default", <<>>, <<>>, from, NoUser) :
      from \in {NoUser, 10} }
  \cup
  { Arguments("custom", "simpleperf", 1, "none", o[1], o[2], o[3], NoUser, NoUser) :
      o \in {<<"file_plain", <<>>, <<>>>>,
              <<"default", <<"power/cpu_idle">>, <<>>>>,
              <<"default", <<>>, <<"mock-ftrace-event">>>>,
              <<"default", <<"power/cpu_idle">>, <<"mock-ftrace-event">>>>} }
  \cup
  { Arguments("custom", "perfetto", n, "none", "default", ft[1], ft[2], NoUser, NoUser) :
      n \in {1, MaxRuns},
      ft \in (DuplicateLists \X ({<<>>} \cup DuplicateLists))
               \cup ({<<>>} \X DuplicateLists) }
  \cup
  { Arguments("custom", "perfetto", 1, ui, "default", <<a>>, <<a>>, NoUser, NoUser) :
      ui \in UiValues, a \in FtraceEvents }
  \cup
  { [Arguments("custom", "perfetto", n, "none", cfg, <<>>, <<>>, NoUser, NoUser)
       EXCEPT !.dur_ms = d[1], !.between_dur_ms = d[2]] :
      n \in {1, 2}, cfg \in {"default", "file_duration"},
      d \in {<<MinDurationMs - 1, DefaultDurMs>>, <<0, DefaultDurMs>>,
              <<DefaultDurMs, MinDurationMs - 1>>, <<DefaultDurMs, 0>>,
              <<MinDurationMs - 1, MinDurationMs - 1>>} }
  \cup
  { [Arguments("custom", "perfetto", 1, "none", "default", <<>>, <<>>, NoUser, NoUser)
       EXCEPT !.between_dur_ms = MinDurationMs] }
  \cup
  { [Arguments(e, p, 1, "none", "default", <<>>, <<>>, NoUser, NoUser)
       EXCEPT !.app = IF e = "app-startup" THEN NoApp ELSE AppPackage] :
      e \in {"custom", "boot", "app-startup"}, p \in {"perfetto", "simpleperf"} }
  \cup
  { [Arguments("user-switch", "perfetto", 1, "none", "default", <<>>, <<>>, from, 11)
       EXCEPT !.app = AppPackage] : from \in {NoUser, 10} }
  \cup
  { Arguments("app-startup", "perfetto", 1, "none", "default", <<>>, <<>>, ft[1], ft[2]) :
      ft \in {<<10, NoUser>>, <<NoUser, 11>>, <<10, 11>>} }

\* No command: main has not created one.
NoCommand == ProfilerCommand("none", "none", <<0, FALSE>>, "none", <<{}, {}>>,
                             NoUser, NoUser)

Init ==
  /\ args \in AcceptedArguments \cup RejectedArguments
  /\ argv = args
  /\ poll = NoPoll
  /\ adb = NoAdb
  /\ config = NoConfig
  /\ host_files = {}
  /\ cancelled_run = NoRun
  /\ command = NoCommand
  /\ connected \in BOOLEAN
  \* Without a device the session ends before the command is read.
  /\ ~connected => args = Arguments("custom", "perfetto", 1, "none", "default",
                                    <<>>, <<>>, NoUser, NoUser)
  /\ device_user \in (IF args \in AcceptedArguments /\ args.event = "user-switch"
                      THEN InitialUsers ELSE {0})
  /\ app_installed \in (IF args \in AcceptedArguments /\ args.event = "app-startup"
                        THEN BOOLEAN ELSE {FALSE})
  /\ app_running \in (IF app_installed THEN BOOLEAN ELSE {FALSE})
  /\ app_is_service \in (IF app_installed THEN BOOLEAN ELSE {FALSE})
  /\ pc = "main"
  /\ run = 0
  /\ trace_cancelled = FALSE
  /\ result = "pending"
  /\ host_file = 0
  /\ polls = 0
  /\ stop_reason = "none"
  /\ interrupts = 0
  /\ device_state = "online"
  /\ boot_completed = TRUE
  /\ boot_prop = FALSE
  /\ pending_user = NoUser
  /\ tool_running = FALSE
  /\ process_exited = TRUE
  /\ log = <<>>
  /\ sig_wait = {}

\* ------------------------------------------------------- execute: outcomes

\* execute returns value v (None: "ok", or a ValidationError).
Return(v) == pc' = "done" /\ result' = v

\* Mutant of Raise: the exception is caught and returned as a
\* ValidationError.
Raise_caught(e) == pc' = "done" /\ result' = "err_validation"

\* Exception `e` leaves execute; nothing in execute or execute_command
\* catches it.
Raise(e) == pc' = "done" /\ result' = e

\* The exceptions: the timeouts of the bounded waits (root_device, the initial
\* user switch, stop_process, wait_for_boot_to_complete), the stub of
\* simpleperf_event_exists, convert_simpleperf_to_gecko, a failing transport.
FatalFaults == {"fatal_root", "fatal_user_switch", "fatal_stop", "fatal_boot",
                "fatal_validate", "fatal_convert", "fatal_device"}

\* Mutant of poll_round: the timeout is tested before the check's result.
poll_round_timeout_first(completed, elapsed, timed_out_limit) ==
  IF elapsed > timed_out_limit THEN "false"
  ELSE IF completed THEN "true"
  ELSE "again"

\* Mutant of poll_round: with a timeout of 0 the call gives up unchecked.
poll_round_gives_up_at_zero(completed, elapsed, timed_out_limit) ==
  IF timed_out_limit = 0 THEN "false"
  ELSE IF completed THEN "true"
  ELSE IF elapsed > timed_out_limit THEN "false"
  ELSE "again"

\* poll_is_task_completed, lines 85-88, after the sleep of one round: return
\* True when the check holds, else False when more than timed_out_limit has
\* elapsed since the start, else go round again.
poll_round(completed, elapsed, timed_out_limit) ==
  IF completed THEN "true"
  ELSE IF elapsed > timed_out_limit THEN "false"
  ELSE "again"

\* Mutant of poll_is_task_completed: a raised cancellation flag ends the
\* wait as a timeout does.
poll_is_task_completed_cancellable(completed) ==
  IF trace_cancelled THEN "false" ELSE poll_round(completed, polls + 1, MaxPolls - 1)

\* One round of poll_is_task_completed(timeout, interval, check) in a
\* session, on a clock of one tick per round and with a timeout of
\* MaxPolls - 1 ticks.  `polls` counts the failed checks.
poll_is_task_completed(completed) == poll_round(completed, polls + 1, MaxPolls - 1)

\* Mutant of PollOrRaise: a wait that timed out is started again.
PollOrRaise_restarts(completed, next, e) ==
  LET outcome == poll_is_task_completed(completed)
  IN CASE outcome = "true" -> pc' = next /\ result' = result /\ polls' = 0
       [] OTHER -> polls' = (IF outcome = "false" THEN 0 ELSE polls + 1)
                   /\ UNCHANGED <<pc, result>>

\* A caller that goes on at `next` on True and raises `e` on False.
PollOrRaise(completed, next, e) ==
  LET outcome == poll_is_task_completed(completed)
  IN CASE outcome = "true" -> pc' = next /\ result' = result /\ polls' = 0
       [] outcome = "false" -> Raise(e) /\ polls' = 0
       [] OTHER -> polls' = polls + 1 /\ UNCHANGED <<pc, result>>

\* adb root: adbd may restart, and the device drops off adb devices until it
\* is back.
AdbRoot == device_state' \in {"online", "adbd_restart"}

\* -------------------------------------------------------------- torq.main

\* The events a list names (set(list)).
Range(list) == {list[i] : i \in DOMAIN list}

\* Mutant of ftrace_events_error: an event may be both excluded and included.
ftrace_events_error_overlap_allowed(a) ==
  IF a.excluded_ftrace_events # <<>> /\ a.profiler # "perfetto" THEN "err_args"
  ELSE IF Len(a.excluded_ftrace_events)
            # Cardinality(Range(a.excluded_ftrace_events)) THEN "err_args"
  ELSE IF a.included_ftrace_events # <<>> /\ a.profiler # "perfetto" THEN "err_args"
  ELSE IF Len(a.included_ftrace_events)
            # Cardinality(Range(a.included_ftrace_events)) THEN "err_args"
  ELSE "ok"

\* verify_args, lines 264-309: the checks of the two ftrace lists, in the
\* code's order ("ok": none of them returned an error).
ftrace_events_error(a) ==
  IF a.excluded_ftrace_events # <<>> /\ a.profiler # "perfetto" THEN "err_args"
  ELSE IF Len(a.excluded_ftrace_events)
            # Cardinality(Range(a.excluded_ftrace_events)) THEN "err_args"
  ELSE IF a.included_ftrace_events # <<>> /\ a.profiler # "perfetto" THEN "err_args"
  ELSE IF Len(a.included_ftrace_events)
            # Cardinality(Range(a.included_ftrace_events)) THEN "err_args"
  ELSE IF a.excluded_ftrace_events # <<>> /\ a.included_ftrace_events # <<>>
          /\ Range(a.excluded_ftrace_events) \cap Range(a.included_ftrace_events) # {}
       THEN "err_args"
  ELSE "ok"

\* Mutant of verify_args_error: --runs is not checked to be at least 1.
verify_args_error_runs_unchecked(a) ==
  IF a.dur_ms < MinDurationMs THEN "err_args"
  ELSE IF a.from_user # NoUser /\ a.event # "user-switch" THEN "err_args"
  ELSE IF a.to_user # NoUser /\ a.event # "user-switch" THEN "err_args"
  ELSE IF a.event = "user-switch" /\ a.to_user = NoUser THEN "err_args"
  ELSE IF a.app # NoApp /\ a.event # "app-startup" THEN "err_args"
  ELSE IF a.event = "app-startup" /\ a.app = NoApp THEN "err_args"
  ELSE IF a.runs > 1 /\ a.ui = "true" THEN "err_args"
  ELSE IF a.perfetto_config # "default" /\ a.profiler # "perfetto" THEN "err_args"
  ELSE IF a.between_dur_ms < MinDurationMs THEN "err_args"
  ELSE IF a.between_dur_ms # DefaultDurMs /\ a.runs = 1 THEN "err_args"
  ELSE ftrace_events_error(a)

\* Mutant of verify_args_error: --ui is let through with several runs.
verify_args_error_ui_unchecked(a) ==
  IF a.dur_ms < MinDurationMs THEN "err_args"
  ELSE IF a.from_user # NoUser /\ a.event # "user-switch" THEN "err_args"
  ELSE IF a.to_user # NoUser /\ a.event # "user-switch" THEN "err_args"
  ELSE IF a.event = "user-switch" /\ a.to_user = NoUser THEN "err_args"
  ELSE IF a.app # NoApp /\ a.event # "app-startup" THEN "err_args"
  ELSE IF a.event = "app-startup" /\ a.app = NoApp THEN "err_args"
  ELSE IF a.runs < 1 THEN "err_args"
  ELSE IF a.perfetto_config # "default" /\ a.profiler # "perfetto" THEN "err_args"
  ELSE IF a.between_dur_ms < MinDurationMs THEN "err_args"
  ELSE IF a.between_dur_ms # DefaultDurMs /\ a.runs = 1 THEN "err_args"
  ELSE ftrace_events_error(a)

\* Mutant of verify_args_error: --app is not checked against --event.
verify_args_error_app_unchecked(a) ==
  IF a.dur_ms < MinDurationMs THEN "err_args"
  ELSE IF a.from_user # NoUser /\ a.event # "user-switch" THEN "err_args"
  ELSE IF a.to_user # NoUser /\ a.event # "user-switch" THEN "err_args"
  ELSE IF a.event = "user-switch" /\ a.to_user = NoUser THEN "err_args"
  ELSE IF a.runs < 1 THEN "err_args"
  ELSE IF a.runs > 1 /\ a.ui = "true" THEN "err_args"
  ELSE IF a.perfetto_config # "default" /\ a.profiler # "perfetto" THEN "err_args"
  ELSE IF a.between_dur_ms < MinDurationMs THEN "err_args"
  ELSE IF a.between_dur_ms # DefaultDurMs /\ a.runs = 1 THEN "err_args"
  ELSE ftrace_events_error(a)

\* verify_args: the ValidationError it returns ("ok": None), the checks in
\* the code's order.  The explored arguments name config files that exist
\* and leave --out-dir and --simpleperf-event at their defaults.
verify_args_error(a) ==
  IF a.dur_ms < MinDurationMs THEN "err_args"
  ELSE IF a.from_user # NoUser /\ a.event # "user-switch" THEN "err_args"
  ELSE IF a.to_user # NoUser /\ a.event # "user-switch" THEN "err_args"
  ELSE IF a.event = "user-switch" /\ a.to_user = NoUser THEN "err_args"
  ELSE IF a.app # NoApp /\ a.event # "app-startup" THEN "err_args"
  ELSE IF a.event = "app-startup" /\ a.app = NoApp THEN "err_args"
  ELSE IF a.runs < 1 THEN "err_args"
  ELSE IF a.runs > 1 /\ a.ui = "true" THEN "err_args"
  ELSE IF a.perfetto_config # "default" /\ a.profiler # "perfetto" THEN "err_args"
  ELSE IF a.between_dur_ms < MinDurationMs THEN "err_args"
  ELSE IF a.between_dur_ms # DefaultDurMs /\ a.runs = 1 THEN "err_args"
  ELSE ftrace_events_error(a)

\* Mutant of verify_args: the default of --ui replaces what was passed.
verify_args_overwrites_ui(a) ==
  [a EXCEPT !.ui = IF a.runs = 1 THEN "true" ELSE "false"]

\* verify_args, lines 391-392: the arguments it returns when it returns no
\* error; ui takes its default when it was not passed.
verify_args(a) ==
  [a EXCEPT !.ui = IF a.ui = "none"
                   THEN (IF a.runs = 1 THEN "true" ELSE "false")
                   ELSE a.ui]

\* create_profiler_command
create_profiler_command(a) ==
  [ProfilerCommand(a.event, a.profiler, <<a.runs, a.ui = "true">>,
                   a.perfetto_config,
                   <<Range(a.excluded_ftrace_events), Range(a.included_ftrace_events)>>,
                   a.from_user, a.to_user)
     EXCEPT !.dur_ms = a.dur_ms, !.between_dur_ms = a.between_dur_ms,
            !.app = a.app]

\* main: verify_args, and on an error print it and return; else create the
\* command and the AdbDevice object (which runs no adb command) and call
\* command.execute(device).
Main ==
  /\ pc = "main"
  /\ IF verify_args_error(args) # "ok"
     THEN Return("err_args") /\ UNCHANGED <<args, command>>
     ELSE /\ args' = verify_args(args)
          /\ command' = create_profiler_command(args')
          /\ pc' = "start"
          /\ UNCHANGED result
  /\ UNCHANGED <<run, trace_cancelled, host_file, polls, stop_reason, interrupts,
                 argv, poll, adb, config, host_files, cancelled_run, connected, deviceVars, app_installed, app_is_service,
                 log, sig_wait>>

\* ------------------------------------------------ CommandExecutor.execute

\* execute: install the signal handlers, check_device_connection, then issue
\* adb root (root_device's first statement).
Execute ==
  /\ pc = "start"
  /\ IF ~connected
     THEN Return("err_connection") /\ UNCHANGED device_state
     ELSE pc' = "root_poll" /\ AdbRoot /\ UNCHANGED result
  /\ UNCHANGED <<run, command, trace_cancelled, host_file, polls, stop_reason,
                 interrupts, args, argv, poll, adb, config, host_files, cancelled_run, connected, boot_completed, boot_prop, device_user,
                 pending_user, tool_running, process_exited, app_installed,
                 app_running, app_is_service, log, sig_wait>>

\* root_device's bounded wait for the device to be back on adb devices.
RootPoll ==
  /\ pc = "root_poll"
  /\ PollOrRaise(device_state = "online", "validate", "fatal_root")
  /\ UNCHANGED <<run, command, trace_cancelled, host_file, stop_reason,
                 interrupts, args, argv, poll, adb, config, host_files, cancelled_run, connected, deviceVars, app_installed,
                 app_is_service, log, sig_wait>>

\* Mutant of user_exists: every user id is taken to exist.
user_exists_always(user) == TRUE

\* AdbDevice.user_exists
user_exists(user) == user \in DeviceUsers

\* Mutant of validate_user_switch_error: the to-user is compared with the
\* device's current user, whatever --from-user says.
validate_user_switch_error_current_user(cmd) ==
  IF ~user_exists(cmd.to_user) THEN "err_validation"
  ELSE IF cmd.from_user # NoUser /\ ~user_exists(cmd.from_user) THEN "err_validation"
  ELSE IF device_user = cmd.to_user THEN "err_validation"
  ELSE "ok"

\* ProfilerCommand.validate_user_switch: the error it returns ("ok": None).
validate_user_switch_error(cmd) ==
  IF ~user_exists(cmd.to_user) THEN "err_validation"
  ELSE IF cmd.from_user # NoUser /\ ~user_exists(cmd.from_user) THEN "err_validation"
  ELSE IF (IF cmd.from_user = NoUser THEN device_user ELSE cmd.from_user) = cmd.to_user
       THEN "err_validation"
  ELSE "ok"

\* ProfilerCommand.validate_user_switch: the command it leaves.  original_user
\* is assigned once the to-user was found to exist, from_user defaults to it.
validate_user_switch_command(cmd) ==
  IF ~user_exists(cmd.to_user) THEN cmd
  ELSE [cmd EXCEPT !.original_user = device_user,
                   !.from_user = IF cmd.from_user = NoUser THEN device_user
                                 ELSE cmd.from_user]

\* Mutant of validate_app_startup_error: a package that is already running
\* is let through.
validate_app_startup_error_running_allowed ==
  IF ~app_installed THEN "err_validation" ELSE "ok"

\* ProfilerCommand.validate_app_startup
validate_app_startup_error ==
  IF ~app_installed THEN "err_validation"
  ELSE IF app_running THEN "err_validation"
  ELSE "ok"

\* command.validate(device), called by execute.  simpleperf_event is set for
\* the simpleperf profiler only; the device's simpleperf_event_exists either
\* raises (the stub of device.py) or returns a value validate drops.
Validate ==
  /\ pc = "validate"
  /\ \/ /\ command.profiler = "simpleperf"
        /\ Raise("fatal_validate")
        /\ UNCHANGED <<command, log>>
     \/ /\ command' = IF command.event = "user-switch"
                      THEN validate_user_switch_command(command) ELSE command
        /\ log' = IF command.event = "user-switch" /\ user_exists(command.to_user)
                  THEN Append(log, Ev("get_current_user", device_user)) ELSE log
        /\ LET error == CASE command.event = "user-switch" ->
                               validate_user_switch_error(command)
                          [] command.event = "app-startup" ->
                               validate_app_startup_error
                          [] OTHER -> "ok"
           IN IF error # "ok" THEN Return(error)
              ELSE pc' = "create_config" /\ UNCHANGED result
  /\ UNCHANGED <<run, trace_cancelled, host_file, polls, stop_reason,
                 interrupts, args, argv, poll, adb, config, host_files, cancelled_run, connected, deviceVars, app_installed,
                 app_is_service, sig_wait>>

\* ------------------------------------------------------------- the config

\* Mutant of create_ftrace_events_string: an included event the config
\* already holds is appended without an error.
create_ftrace_events_string_included_unchecked(predefined, excluded, included) ==
  IF \E e \in excluded : e \notin predefined THEN "err_config"
  ELSE "ok"

\* create_ftrace_events_string: the error it returns ("ok": None).  Every
\* excluded event must be one of the config's, no included event may be.
create_ftrace_events_string(predefined, excluded, included) ==
  IF \E e \in excluded : e \notin predefined THEN "err_config"
  ELSE IF \E e \in included : e \in (predefined \ excluded) THEN "err_config"
  ELSE "ok"

\* create_ftrace_events_string, lines 25-53: the events of the string it
\* returns, each with the number of times it is named.  An excluded event is
\* removed from the config's events, an included one is appended.
ftrace_events_string(predefined, excluded, included) ==
  [e \in FtraceEvents |->
     (IF e \in predefined \ excluded THEN 1 ELSE 0) + (IF e \in included THEN 1 ELSE 0)]

\* The config text build_custom_config returns: the file's content, then
\* appended_duration.
custom_config(durations) ==
  [builder |-> "file", ftrace_events |-> [e \in FtraceEvents |-> 0],
   durations |-> durations]

\* Mutant of build_custom_config: a file without a duration_ms line replaces
\* command.dur_ms too.
build_custom_config_always_replaces(cmd) ==
  CASE cmd.perfetto_config = "file_bad_duration" ->
         [error |-> "err_config", dur_ms |-> cmd.dur_ms, config |-> NoConfig]
    [] OTHER -> [error |-> "ok", dur_ms |-> FileDurMs,
                 config |-> custom_config(<<FileDurMs>>)]

\* Mutant of build_custom_config: the command's duration is appended to a
\* file that holds a duration_ms line too.
build_custom_config_appends(cmd) ==
  CASE cmd.perfetto_config = "file_duration" ->
         [error |-> "ok", dur_ms |-> FileDurMs,
          config |-> custom_config(<<FileDurMs, cmd.dur_ms>>)]
    [] cmd.perfetto_config = "file_short_duration" ->
         [error |-> "ok", dur_ms |-> FileShortDurMs,
          config |-> custom_config(<<FileShortDurMs, cmd.dur_ms>>)]
    [] cmd.perfetto_config = "file_bad_duration" ->
         [error |-> "err_config", dur_ms |-> cmd.dur_ms, config |-> NoConfig]
    [] OTHER -> [error |-> "ok", dur_ms |-> cmd.dur_ms,
                 config |-> custom_config(<<cmd.dur_ms>>)]

\* build_custom_config: [error, dur_ms, config] for the file the command
\* names.  A duration_ms line of the file replaces command.dur_ms and clears
\* appended_duration; one that int() cannot parse is a ValidationError; a
\* file without the line gets the command's duration appended.
build_custom_config(cmd) ==
  CASE cmd.perfetto_config = "file_duration" ->
         [error |-> "ok", dur_ms |-> FileDurMs,
          config |-> custom_config(<<FileDurMs>>)]
    [] cmd.perfetto_config = "file_short_duration" ->
         [error |-> "ok", dur_ms |-> FileShortDurMs,
          config |-> custom_config(<<FileShortDurMs>>)]
    [] cmd.perfetto_config = "file_bad_duration" ->
         [error |-> "err_config", dur_ms |-> cmd.dur_ms, config |-> NoConfig]
    [] OTHER -> [error |-> "ok", dur_ms |-> cmd.dur_ms,
                 config |-> custom_config(<<cmd.dur_ms>>)]

\* ProfilerCommandExecutor.create_config: a predefined config by name, else
\* the custom file.
create_config(cmd) ==
  IF cmd.perfetto_config = "default"
  THEN LET error == create_ftrace_events_string(PredefinedFtraceEvents,
                                                cmd.excluded_ftrace_events,
                                                cmd.included_ftrace_events)
       IN [error |-> error, dur_ms |-> cmd.dur_ms,
           config |-> IF error # "ok" THEN NoConfig
                      ELSE [builder |-> "default",
                            ftrace_events |->
                              ftrace_events_string(PredefinedFtraceEvents,
                                                   cmd.excluded_ftrace_events,
                                                   cmd.included_ftrace_events),
                            durations |-> <<cmd.dur_ms>>]]
  ELSE build_custom_config(cmd)

\* Mutant of config_failed: the error of create_config is ignored.
config_failed_ignored(built) == FALSE

\* execute_command, line 70: `if error is not None`.
config_failed(built) == built.error # "ok"

\* execute_command, lines 69-71.
CreateConfig ==
  /\ pc = "create_config"
  /\ LET built == create_config(command)
     IN /\ command' = [command EXCEPT !.dur_ms = built.dur_ms]
        /\ config' = built.config
        /\ IF config_failed(built) THEN Return(built.error)
           ELSE pc' = "prepare_device" /\ UNCHANGED result
  /\ UNCHANGED <<run, trace_cancelled, host_file, polls, stop_reason,
                 interrupts, args, argv, poll, adb, host_files, cancelled_run, connected, deviceVars, app_installed,
                 app_is_service, log, sig_wait>>

\* prepare_device: BootCommandExecutor writes the config to the device, the
\* other executors do nothing.  The log it leaves.
prepare_device(l) ==
  IF command.event = "boot"
  THEN l \o <<Ev("prepare_device", 0), Ev("write_to_file", 0)>>
  ELSE Append(l, Ev("prepare_device", 0))

\* execute_command, lines 72-77: prepare_device, then the loop is entered;
\* range(1, command.runs + 1) is empty for runs < 1 and the loop is skipped.
PrepareDevice ==
  /\ pc = "prepare_device"
  /\ log' = prepare_device(log)
  /\ run' = IF command.runs >= 1 THEN 1 ELSE 0
  /\ pc' = IF command.runs >= 1 THEN "prepare_run" ELSE "loop_tail"
  /\ UNCHANGED <<command, trace_cancelled, result, host_file, polls,
                 stop_reason, interrupts, args, argv, poll, adb, config, host_files, cancelled_run, connected, deviceVars, app_installed,
                 app_is_service, sig_wait>>

\* ------------------------------------------------------ the hooks of a run

\* perform_user_switch: am switch-user is issued; the device switches later.
perform_user_switch(user) == pending_user' = user

\* prepare_device_for_run of the executor of command.event.  Removes the stale
\* trace file; UserSwitchCommandExecutor then switches to the from-user
\* unless cancelled or already there; BootCommandExecutor sets the boot-trace
\* property.
PrepareDeviceForRun ==
  /\ pc = "prepare_run"
  /\ host_file' = run
  /\ LET l == log \o <<Ev("prepare_device_for_run", 0), Ev("remove_file", 0)>>
     IN CASE command.event = "user-switch" ->
               IF trace_cancelled \/ command.from_user = device_user
               THEN /\ log' = l
                    /\ pc' = "check_cancel"
                    /\ UNCHANGED <<pending_user, boot_prop>>
               ELSE /\ log' = Append(l, Ev("perform_user_switch", command.from_user))
                    /\ perform_user_switch(command.from_user)
                    /\ pc' = "init_switch_poll"
                    /\ UNCHANGED boot_prop
          [] command.event = "boot" ->
               /\ log' = Append(l, Ev("set_prop", 0))
               /\ boot_prop' = TRUE
               /\ pc' = "check_cancel"
               /\ UNCHANGED pending_user
          [] OTHER ->
               /\ log' = l
               /\ pc' = "check_cancel"
               /\ UNCHANGED <<pending_user, boot_prop>>
  /\ UNCHANGED <<run, command, trace_cancelled, result, polls, stop_reason,
                 interrupts, args, argv, poll, adb, config, host_files, cancelled_run, connected, device_state, boot_completed,
                 device_user, tool_running, process_exited, app_installed,
                 app_running, app_is_service, sig_wait>>

\* UserSwitchCommandExecutor.prepare_device_for_run: the bounded wait for the
\* device to be at the from-user.
InitUserSwitchPoll ==
  /\ pc = "init_switch_poll"
  /\ PollOrRaise(device_user = command.from_user, "check_cancel", "fatal_user_switch")
  /\ UNCHANGED <<run, command, trace_cancelled, host_file, stop_reason,
                 interrupts, args, argv, poll, adb, config, host_files, cancelled_run, connected, deviceVars, app_installed,
                 app_is_service, log, sig_wait>>

\* Mutant of cleanup: UserSwitchCommandExecutor goes back to the from-user,
\* not to the user the session started at.
cleanup_to_from_user(l) ==
  IF command.event = "user-switch" /\ device_user # command.from_user
  THEN /\ log' = l \o <<Ev("cleanup", 0),
                        Ev("perform_user_switch", command.from_user)>>
       /\ perform_user_switch(command.from_user)
  ELSE /\ log' = Append(l, Ev("cleanup", 0))
       /\ UNCHANGED pending_user

\* cleanup of the executor of command.event: UserSwitchCommandExecutor
\* switches back to original_user when the device is at another user, the
\* other executors do nothing.  Every cleanup returns None.
cleanup(l) ==
  IF command.event = "user-switch" /\ device_user # command.original_user
  THEN /\ log' = l \o <<Ev("cleanup", 0),
                        Ev("perform_user_switch", command.original_user)>>
       /\ perform_user_switch(command.original_user)
  ELSE /\ log' = Append(l, Ev("cleanup", 0))
       /\ UNCHANGED pending_user

\* Mutant of cancelled_in_preparation: the flag is not looked at after the
\* preparation.
cancelled_in_preparation_ignored == FALSE

\* execute_command, line 88: `if self.trace_cancelled`.
cancelled_in_preparation == trace_cancelled

\* execute_command, lines 88-89: cancelled during the preparation.
CheckCancel ==
  /\ pc = "check_cancel"
  /\ IF cancelled_in_preparation
     THEN cleanup(log) /\ Return("ok")
     ELSE pc' = "execute_run" /\ UNCHANGED <<result, log, pending_user>>
  /\ UNCHANGED <<run, command, trace_cancelled, host_file, polls, stop_reason,
                 interrupts, args, argv, poll, adb, config, host_files, cancelled_run, connected, device_state, boot_completed, boot_prop,
                 device_user, tool_running, process_exited, app_installed,
                 app_running, app_is_service, sig_wait>>

\* ProfilerCommandExecutor.execute_run, lines 139-144: start the tracing tool.
StartTrace ==
  /\ pc = "execute_run"
  /\ command.event # "boot"
  /\ log' = log \o <<Ev("execute_run", 0), Ev("start_trace", 0)>>
  /\ tool_running' = TRUE
  /\ process_exited' = FALSE
  /\ pc' = "trigger"
  /\ UNCHANGED <<run, command, trace_cancelled, result, host_file, polls,
                 stop_reason, interrupts, args, argv, poll, adb, config, host_files, cancelled_run, connected, device_state,
                 boot_completed, boot_prop, device_user, pending_user,
                 app_installed, app_running, app_is_service, sig_wait>>

\* Mutant of stop_process: perfetto is not killed.
stop_process_leaves_tool(l, reason) ==
  /\ log' = Append(l, Ev("stop_process", 0))
  /\ stop_reason' = reason
  /\ IF command.profiler = "simpleperf"
     THEN pc' = "stop_poll" /\ UNCHANGED tool_running
     ELSE pc' = "stopped" /\ UNCHANGED tool_running

\* stop_process: kill perfetto; interrupt simpleperf and wait (bounded) for
\* its post-processing to end.  `l` is the log so far, `reason` the place
\* in execute_run that stops the tool.
stop_process(l, reason) ==
  /\ log' = Append(l, Ev("stop_process", 0))
  /\ stop_reason' = reason
  /\ IF command.profiler = "simpleperf"
     THEN pc' = "stop_poll" /\ UNCHANGED tool_running
     ELSE pc' = "stopped" /\ tool_running' = FALSE

\* trigger_system_event of the executor of command.event, and what
\* execute_run does with its error (lines 145-149).
TriggerSystemEvent ==
  /\ pc = "trigger"
  /\ CASE command.event = "user-switch" ->
            /\ log' = Append(log, Ev("perform_user_switch", command.to_user))
            /\ perform_user_switch(command.to_user)
            /\ pc' = "wait"
            /\ UNCHANGED <<app_running, tool_running, stop_reason, result>>
       [] command.event = "app-startup" /\ ~app_is_service ->
            /\ log' = Append(log, Ev("start_package", 0))
            /\ app_running' = TRUE
            /\ pc' = "wait"
            /\ UNCHANGED <<pending_user, tool_running, stop_reason, result>>
       [] command.event = "app-startup" /\ app_is_service ->
            /\ stop_process(Append(log, Ev("start_package", 1)), "trigger_error")
            /\ UNCHANGED <<pending_user, app_running, result>>
       [] OTHER ->
            /\ pc' = "wait"
            /\ UNCHANGED <<log, pending_user, app_running, tool_running,
                           stop_reason, result>>
  /\ UNCHANGED <<run, command, trace_cancelled, host_file, polls, interrupts, args, argv, poll, adb, config, host_files, cancelled_run,
                 connected, device_state, boot_completed, boot_prop,
                 device_user, process_exited, app_installed, app_is_service,
                 sig_wait>>

\* Mutant of is_trace_cancelled: the cancellation flag is not consulted.
is_trace_cancelled_ignores_flag ==
  IF command.event = "boot" THEN ~tool_running ELSE process_exited

\* is_trace_cancelled of the executor of command.event.
is_trace_cancelled ==
  IF command.event = "boot"
  THEN ~tool_running \/ trace_cancelled
  ELSE process_exited \/ trace_cancelled

\* wait_for_trace: sleeps until is_trace_cancelled.
WaitForTrace ==
  /\ pc = "wait"
  /\ is_trace_cancelled
  /\ pc' = "after_wait"
  /\ UNCHANGED <<run, command, trace_cancelled, result, host_file, polls,
                 stop_reason, interrupts, args, argv, poll, adb, config, host_files, cancelled_run, connected, deviceVars, app_installed,
                 app_is_service, log, sig_wait>>

\* Mutant of AfterWait: the tool is stopped whether it still runs or not.
AfterWait_always_stops ==
  /\ pc = "after_wait"
  /\ stop_process(log, "after_wait")
  /\ UNCHANGED <<run, command, trace_cancelled, result, host_file, polls,
                 interrupts, args, argv, poll, adb, config, host_files, cancelled_run, connected, device_state,
                 boot_completed, boot_prop, device_user, pending_user,
                 process_exited, app_installed, app_running, app_is_service,
                 sig_wait>>

\* execute_run, lines 151-154 (boot: 255-257): stop the tool if it still runs.
AfterWait ==
  /\ pc = "after_wait"
  /\ IF tool_running
     THEN stop_process(log, "after_wait")
     ELSE pc' = "finish_run" /\ UNCHANGED <<log, stop_reason, tool_running>>
  /\ UNCHANGED <<run, command, trace_cancelled, result, host_file, polls,
                 interrupts, args, argv, poll, adb, config, host_files, cancelled_run, connected, device_state, boot_completed, boot_prop,
                 device_user, pending_user, process_exited, app_installed,
                 app_running, app_is_service, sig_wait>>

\* stop_process for simpleperf: the bounded wait for the profiler to have no
\* pid left ("Simpleperf post-processing took too long." on a timeout).
StopPoll ==
  /\ pc = "stop_poll"
  /\ PollOrRaise(~tool_running, "stopped", "fatal_stop")
  /\ UNCHANGED <<run, command, trace_cancelled, host_file, stop_reason,
                 interrupts, args, argv, poll, adb, config, host_files, cancelled_run, connected, deviceVars, app_installed,
                 app_is_service, log, sig_wait>>

\* Mutant of Stopped: the error execute_run returned is dropped and the run
\* goes on.
Stopped_continues ==
  /\ pc = "stopped"
  /\ pc' = "finish_run"
  /\ UNCHANGED <<run, command, trace_cancelled, result, host_file, polls, stop_reason,
                 interrupts, args, argv, poll, adb, config, host_files, cancelled_run, connected, deviceVars,
                 app_installed, app_is_service, log, sig_wait>>

\* stop_process has returned: execute_run returns the trigger's error
\* (line 149) or goes on after the wait (line 154).
Stopped ==
  /\ pc = "stopped"
  /\ IF stop_reason = "trigger_error"
     THEN Return("err_trigger")
     ELSE pc' = "finish_run" /\ UNCHANGED result
  /\ UNCHANGED <<run, command, trace_cancelled, host_file, polls, stop_reason,
                 interrupts, args, argv, poll, adb, config, host_files, cancelled_run, connected, deviceVars, app_installed,
                 app_is_service, log, sig_wait>>

\* Mutant of FinishRun: AppStartupCommandExecutor leaves the package running.
FinishRun_leaves_package ==
  /\ pc = "finish_run"
  /\ pc' = "retrieve"
  /\ UNCHANGED <<run, command, trace_cancelled, result, host_file, polls,
                 stop_reason, interrupts, args, argv, poll, adb, config, host_files, cancelled_run, connected, deviceVars,
                 app_installed, app_is_service, log, sig_wait>>

\* The end of execute_run: AppStartupCommandExecutor force-stops the package
\* (line 277); execute_command goes on to retrieve_perf_data.
FinishRun ==
  /\ pc = "finish_run"
  /\ pc' = "retrieve"
  /\ IF command.event = "app-startup"
     THEN log' = Append(log, Ev("force_stop_package", 0)) /\ app_running' = FALSE
     ELSE UNCHANGED <<log, app_running>>
  /\ UNCHANGED <<run, command, trace_cancelled, result, host_file, polls,
                 stop_reason, interrupts, args, argv, poll, adb, config, host_files, cancelled_run, connected, device_state,
                 boot_completed, boot_prop, device_user, pending_user,
                 tool_running, process_exited, app_installed, app_is_service,
                 sig_wait>>

\* ------------------------------------------- BootCommandExecutor.execute_run

\* Lines 244-245: trigger_system_event reboots the device.
BootTrigger ==
  /\ pc = "execute_run"
  /\ command.event = "boot"
  /\ log' = log \o <<Ev("execute_run", 0), Ev("reboot", 0)>>
  /\ device_state' = "rebooting"
  /\ boot_completed' = FALSE
  /\ tool_running' = FALSE
  /\ pc' = "wait_for_device"
  /\ UNCHANGED <<run, command, trace_cancelled, result, host_file, polls,
                 stop_reason, interrupts, args, argv, poll, adb, config, host_files, cancelled_run, connected, boot_prop, device_user,
                 pending_user, process_exited, app_installed, app_running,
                 app_is_service, sig_wait>>

\* Lines 246-247: adb wait-for-device blocks until the device is back (it has
\* no timeout), then root_device issues adb root.
WaitForDevice ==
  /\ pc = "wait_for_device"
  /\ device_state = "online"
  /\ AdbRoot
  /\ pc' = "boot_root_poll"
  /\ UNCHANGED <<run, command, trace_cancelled, result, host_file, polls,
                 stop_reason, interrupts, args, argv, poll, adb, config, host_files, cancelled_run, connected, boot_completed, boot_prop,
                 device_user, pending_user, tool_running, process_exited,
                 app_installed, app_running, app_is_service, log, sig_wait>>

\* root_device's bounded wait, in a boot run.
BootRootPoll ==
  /\ pc = "boot_root_poll"
  /\ PollOrRaise(device_state = "online", "boot_poll", "fatal_root")
  /\ UNCHANGED <<run, command, trace_cancelled, host_file, stop_reason,
                 interrupts, args, argv, poll, adb, config, host_files, cancelled_run, connected, deviceVars, app_installed,
                 app_is_service, log, sig_wait>>

\* Mutant of is_boot_completed: a device that is back on adb counts as booted.
is_boot_completed_when_online == device_state = "online"

\* is_boot_completed
is_boot_completed == device_state = "online" /\ boot_completed

\* wait_for_boot_to_complete (line 253): the bounded wait for
\* sys.boot_completed; then wait_for_trace.
WaitForBootToComplete ==
  /\ pc = "boot_poll"
  /\ PollOrRaise(is_boot_completed, "wait", "fatal_boot")
  /\ UNCHANGED <<run, command, trace_cancelled, host_file, stop_reason,
                 interrupts, args, argv, poll, adb, config, host_files, cancelled_run, connected, deviceVars, app_installed,
                 app_is_service, log, sig_wait>>

\* ----------------------------------------------- the rest of the run loop

\* The files retrieve_perf_data leaves on the host for run r once it has
\* pulled the trace: the raw file, and for simpleperf the gecko file that
\* convert_simpleperf_to_gecko writes.  BootCommandExecutor only pulls.
retrieved_files(r) ==
  {[run |-> r, kind |-> "raw"]}
    \cup (IF command.profiler = "simpleperf" /\ command.event # "boot"
          THEN {[run |-> r, kind |-> "gecko"]} ELSE {})

\* retrieve_perf_data of the executor of command.event: pull the trace file;
\* for simpleperf (not in a boot session) convert it, and
\* convert_simpleperf_to_gecko raises when no gecko file came out.
RetrievePerfData ==
  /\ pc = "retrieve"
  /\ \/ /\ log' = log \o <<Ev("retrieve_perf_data", 0), Ev("pull_file", 0)>>
        /\ host_files' = host_files \cup retrieved_files(run)
        /\ pc' = "loop_tail"
        /\ UNCHANGED result
     \/ /\ command.profiler = "simpleperf"
        /\ command.event # "boot"
        /\ log' = log \o <<Ev("retrieve_perf_data", 0), Ev("pull_file", 0)>>
        /\ host_files' = host_files \cup {[run |-> run, kind |-> "raw"]}
        /\ Raise("fatal_convert")
  /\ UNCHANGED <<run, command, trace_cancelled, host_file, polls, stop_reason,
                 interrupts, args, argv, poll, adb, config, cancelled_run, connected, deviceVars,
                 app_installed, app_is_service, sig_wait>>

\* Mutant of between_runs_sleep: the delay between two runs is skipped.
between_runs_sleep_skipped(l) == l

\* time.sleep(command.between_dur_ms / 1000), line 109: the log it leaves.
between_runs_sleep(l) == Append(l, Ev("sleep", 0))

\* Mutant of continue_declined: the answer "n" does not end the session.
continue_declined_ignored(answer) == FALSE

\* Line 101: HandleInput's answer ("y": True, "n": False) sends the executor
\* to cleanup.
continue_declined(answer) == ~answer

\* Mutant of opens_ui: the UI is never opened.
opens_ui_never(cmd) == FALSE

\* Line 113: `if command.use_ui`.
opens_ui(cmd) == cmd.use_ui

\* Mutant of NextRun: the answer "y" leaves the flag raised.
NextRun_keeps_flag ==
  /\ pc = "loop_tail"
  /\ command.runs # run
  /\ IF trace_cancelled
     THEN \E answer \in BOOLEAN :
            IF continue_declined(answer)
            THEN /\ cleanup(Append(log, Ev("handle_input", 0)))
                 /\ Return("ok")
                 /\ UNCHANGED run
            ELSE /\ log' = between_runs_sleep(Append(log, Ev("handle_input", 1)))
                 /\ pc' = "sleep"
                 /\ UNCHANGED <<result, pending_user>>
     ELSE /\ log' = between_runs_sleep(log)
          /\ pc' = "sleep"
          /\ UNCHANGED <<result, pending_user>>
  /\ UNCHANGED <<run, command, trace_cancelled, host_file, polls, stop_reason, interrupts, args, argv, poll,
                 adb, config, host_files, cancelled_run, connected, device_state, boot_completed,
                 boot_prop, device_user, tool_running, process_exited,
                 app_installed, app_running, app_is_service, sig_wait>>

\* execute_command, lines 99-109, with more runs to go: when cancelled, ask
\* whether to continue; "n" cleans up and returns, "y" clears the flag.
\* Then time.sleep(between_dur_ms / 1000) is called.
NextRun ==
  /\ pc = "loop_tail"
  /\ command.runs # run
  /\ IF trace_cancelled
     THEN \E answer \in BOOLEAN :
            IF continue_declined(answer)
            THEN /\ cleanup(Append(log, Ev("handle_input", 0)))
                 /\ Return("ok")
                 /\ UNCHANGED trace_cancelled
            ELSE /\ log' = between_runs_sleep(
                             Append(log, Ev("handle_input", IF answer THEN 1 ELSE 0)))
                 /\ trace_cancelled' = FALSE
                 /\ pc' = "sleep"
                 /\ UNCHANGED <<result, pending_user>>
     ELSE /\ log' = between_runs_sleep(log)
          /\ pc' = "sleep"
          /\ UNCHANGED <<trace_cancelled, result, pending_user>>
  /\ UNCHANGED <<run, command, host_file, polls, stop_reason, interrupts, args, argv, poll, adb, config, host_files, cancelled_run, connected,
                 device_state, boot_completed, boot_prop, device_user,
                 tool_running, process_exited, app_installed, app_running,
                 app_is_service, sig_wait>>

\* The delay of line 109 is over: the for loop of line 77 goes on with the
\* next run.
EndSleep ==
  /\ pc = "sleep"
  /\ run' = run + 1
  /\ pc' = "prepare_run"
  /\ UNCHANGED <<command, trace_cancelled, result, host_file, polls, stop_reason,
                 interrupts, args, argv, poll, adb, config, host_files, cancelled_run, connected, deviceVars,
                 app_installed, app_is_service, log, sig_wait>>

\* Mutant of Cleanup: a cancelled last run prompts before cleanup.
Cleanup_prompts ==
  /\ pc = "loop_tail"
  /\ command.runs = run
  /\ cleanup(IF trace_cancelled THEN Append(log, Ev("handle_input", 0)) ELSE log)
  /\ IF opens_ui(command)
     THEN pc' = "open_ui" /\ UNCHANGED result
     ELSE Return("ok")
  /\ UNCHANGED <<run, command, trace_cancelled, host_file, polls, stop_reason,
                 interrupts, args, argv, poll, adb, config, host_files, cancelled_run, connected, device_state,
                 boot_completed, boot_prop, device_user, tool_running,
                 process_exited, app_installed, app_running, app_is_service,
                 sig_wait>>

\* execute_command, lines 110-112, after the last run: cleanup.
Cleanup ==
  /\ pc = "loop_tail"
  /\ command.runs = run
  /\ cleanup(log)
  /\ IF opens_ui(command)
     THEN pc' = "open_ui" /\ UNCHANGED result
     ELSE Return("ok")
  /\ UNCHANGED <<run, command, trace_cancelled, host_file, polls, stop_reason,
                 interrupts, args, argv, poll, adb, config, host_files, cancelled_run, connected, device_state, boot_completed, boot_prop,
                 device_user, tool_running, process_exited, app_installed,
                 app_running, app_is_service, sig_wait>>

\* execute_command, lines 113-119: open_trace on the last host file; its
\* error, if any, is returned.
OpenUi ==
  /\ pc = "open_ui"
  /\ log' = Append(log, Ev("open_trace", host_file))
  /\ \E error \in {"ok", "err_ui"} : Return(error)
  /\ UNCHANGED <<run, command, trace_cancelled, host_file, polls, stop_reason,
                 interrupts, args, argv, poll, adb, config, host_files, cancelled_run, connected, deviceVars, app_installed,
                 app_is_service, sig_wait>>

\* Where a device operation of a hook may raise: remove_file, the start of
\* the tracing tool, the poll of the tracing process, pull_file.
DeviceFaultPcs == {"prepare_run", "execute_run", "wait", "retrieve"}

\* A device operation of a hook raises (the transport itself fails).
DeviceFault ==
  /\ pc \in DeviceFaultPcs
  /\ Raise("fatal_device")
  /\ UNCHANGED <<run, command, trace_cancelled, host_file, polls, stop_reason,
                 interrupts, args, argv, poll, adb, config, host_files, cancelled_run, connected, deviceVars, app_installed,
                 app_is_service, log, sig_wait>>

\* ------------------------------------------------------------ the operator

\* Mutant of signal_handler: an interrupt flips the flag.
signal_handler_toggles == trace_cancelled' = ~trace_cancelled

\* signal_handler, installed by execute for SIGINT and SIGTERM.
signal_handler == trace_cancelled' = TRUE

\* An interrupt is followed from the moment execute has installed the
\* handler to the end of the session.
SignalHandler ==
  /\ pc \notin {"main", "start", "done"}
  /\ interrupts < MaxInterrupts
  /\ interrupts' = interrupts + 1
  /\ signal_handler
  /\ sig_wait' = IF pc = "wait" THEN sig_wait \cup {run} ELSE sig_wait
  /\ cancelled_run' = IF trace_cancelled THEN cancelled_run ELSE run
  /\ UNCHANGED <<pc, run, command, result, host_file, polls, stop_reason,
                 args, argv, poll, adb, config, host_files, connected, deviceVars,
                 app_installed, app_is_service, log>>

\* -------------------------------------------------------------- the device
\* The device is followed for as long as the session lasts.

\* adbd is back after adb root.
DeviceAdbdBack ==
  /\ pc # "done"
  /\ device_state = "adbd_restart"
  /\ device_state' = "online"
  /\ UNCHANGED <<pc, run, command, trace_cancelled, result, host_file, polls,
                 stop_reason, interrupts, args, argv, poll, adb, config, host_files, cancelled_run, connected, boot_completed, boot_prop,
                 device_user, pending_user, tool_running, process_exited,
                 app_installed, app_running, app_is_service, log, sig_wait>>

\* The rebooted device is back on adb; with the boot-trace property set,
\* perfetto was started by the boot.
DeviceBoots ==
  /\ pc # "done"
  /\ device_state = "rebooting"
  /\ device_state' = "online"
  /\ tool_running' = boot_prop
  /\ boot_prop' = FALSE
  /\ UNCHANGED <<pc, run, command, trace_cancelled, result, host_file, polls,
                 stop_reason, interrupts, args, argv, poll, adb, config, host_files, cancelled_run, connected, boot_completed,
                 device_user, pending_user, process_exited, app_installed,
                 app_running, app_is_service, log, sig_wait>>

\* sys.boot_completed becomes 1.
DeviceBootCompletes ==
  /\ pc # "done"
  /\ device_state = "online"
  /\ ~boot_completed
  /\ boot_completed' = TRUE
  /\ UNCHANGED <<pc, run, command, trace_cancelled, result, host_file, polls,
                 stop_reason, interrupts, args, argv, poll, adb, config, host_files, cancelled_run, connected, device_state, boot_prop,
                 device_user, pending_user, tool_running, process_exited,
                 app_installed, app_running, app_is_service, log, sig_wait>>

\* The user switch that was asked for has happened.
DeviceSwitchCompletes ==
  /\ pc # "done"
  /\ pending_user # NoUser
  /\ device_state = "online"
  /\ device_user' = pending_user
  /\ pending_user' = NoUser
  /\ UNCHANGED <<pc, run, command, trace_cancelled, result, host_file, polls,
                 stop_reason, interrupts, args, argv, poll, adb, config, host_files, cancelled_run, connected, device_state,
                 boot_completed, boot_prop, tool_running, process_exited,
                 app_installed, app_running, app_is_service, log, sig_wait>>

\* The tracing tool ends on the device (its duration is over, or it was
\* interrupted and has finished post-processing).
DeviceToolExits ==
  /\ pc # "done"
  /\ tool_running
  /\ device_state = "online"
  /\ tool_running' = FALSE
  /\ UNCHANGED <<pc, run, command, trace_cancelled, result, host_file, polls,
                 stop_reason, interrupts, args, argv, poll, adb, config, host_files, cancelled_run, connected, device_state,
                 boot_completed, boot_prop, device_user, pending_user,
                 process_exited, app_installed, app_running, app_is_service,
                 log, sig_wait>>

\* The host-side process of the trace (adb shell perfetto / simpleperf) ends:
\* the tool is over, or the connection to it is gone.  Only wait_for_trace
\* polls the process, so its end is followed until that wait is over.
HostProcessExits ==
  /\ ~process_exited
  /\ pc \in {"trigger", "wait"}
  /\ process_exited' = TRUE
  /\ UNCHANGED <<pc, run, command, trace_cancelled, result, host_file, polls,
                 stop_reason, interrupts, args, argv, poll, adb, config, host_files, cancelled_run, connected, device_state,
                 boot_completed, boot_prop, device_user, pending_user,
                 tool_running, app_installed, app_running, app_is_service,
                 log, sig_wait>>

Next ==
  \/ Main
  \/ Execute \/ RootPoll \/ Validate \/ CreateConfig \/ PrepareDevice
  \/ PrepareDeviceForRun \/ InitUserSwitchPoll \/ CheckCancel
  \/ StartTrace \/ TriggerSystemEvent \/ WaitForTrace \/ AfterWait
  \/ StopPoll \/ Stopped \/ FinishRun
  \/ BootTrigger \/ WaitForDevice \/ BootRootPoll \/ WaitForBootToComplete
  \/ RetrievePerfData \/ NextRun \/ EndSleep \/ Cleanup \/ OpenUi \/ DeviceFault
  \/ SignalHandler
  \/ DeviceAdbdBack \/ DeviceBoots \/ DeviceBootCompletes
  \/ DeviceSwitchCompletes \/ DeviceToolExits \/ HostProcessExits

Spec == Init /\ [][Next]_vars

\* ------------------------------------------------------------- the claims

HookOps == {"prepare_device_for_run", "execute_run", "retrieve_perf_data", "sleep"}

\* The hooks of the run loop in the order they were invoked, each with its run.
HookTrace ==
  LET h == SelectSeq(log, LAMBDA e : e.op \in HookOps)
  IN [i \in 1..Len(h) |-> <<h[i].op, h[i].run>>]

\* Runs r..n in full: prepare, execute, retrieve, and the delay after every
\* run but the last.
RECURSIVE ExpectedHooks(_, _)
ExpectedHooks(r, n) ==
  IF r > n THEN <<>>
  ELSE <<<<"prepare_device_for_run", r>>, <<"execute_run", r>>,
         <<"retrieve_perf_data", r>>>>
       \o (IF r < n THEN <<<<"sleep", r>>>> ELSE <<>>)
       \o ExpectedHooks(r + 1, n)

\* C1: a session with runs = N that ends without an error, a fault or an
\* interrupt has invoked prepare_device_for_run, execute_run and
\* retrieve_perf_data once per run, in that order, for runs 1..N, and slept
\* the delay once after each run but the last.
C1_HooksOncePerRunInOrder ==
  (pc = "done" /\ result = "ok" /\ interrupts = 0)
    => HookTrace = ExpectedHooks(1, command.runs)

C1_Witness ==
  /\ pc = "done" /\ result = "ok" /\ interrupts = 0
  /\ command.runs = 3
  /\ Count("sleep") = 2

\* C2: once the run loop was entered, execute_command has invoked cleanup
\* exactly once by the time it is left, whatever ended it.
C2_CleanupExactlyOnce ==
  (pc = "done" /\ run >= 1) => Count("cleanup") = 1

\* The places and outcomes of execute before create_config is called.
PreConfigPcs == {"main", "start", "root_poll", "validate", "create_config"}
PreConfigResults == {"err_args", "err_connection", "err_validation", "fatal_root", "fatal_validate"}

\* C3: when create_config returns an error, execute_command returns that
\* error, and no hook and no device operation of the executor has run: no
\* prepare_device, no file removal, user switch or property set, no tracing
\* start, no trigger, no retrieval, no cleanup, no UI.
C3_ConfigErrorTouchesNothing ==
  (/\ create_config(command).error # "ok"
   /\ pc \notin PreConfigPcs
   /\ result \notin PreConfigResults)
    => /\ pc = "done"
       /\ result = create_config(command).error
       /\ \A i \in DOMAIN log : log[i].op = "get_current_user"
       /\ pending_user = NoUser /\ ~tool_running /\ ~boot_prop
       /\ device_state = "online" /\ boot_completed /\ host_file = 0

C3_Witness ==
  /\ pc = "done" /\ result = "err_config"
  /\ command.event = "user-switch"
  /\ command.included_ftrace_events # {}

\* The operator answered the prompt of run r with `answer` (1: y, 0: n).
Answered(r, answer) ==
  \E i \in DOMAIN log :
    log[i].op = "handle_input" /\ log[i].run = r /\ log[i].arg = answer

\* C4: with runs = 3 and an interrupt during the wait of run 1, the operator
\* is prompted once run 1 is over; at the prompt the tool of run 1 is stopped
\* and its artifact retrieved; on "n" the executor goes straight to cleanup
\* and returns: nothing of runs 2 and 3 happens and no delay is slept.
C4_CancelRunOneAnswerNo ==
  (command.runs = 3 /\ 1 \in sig_wait) =>
    /\ (run > 1 \/ Count("cleanup") > 0) => CountRun("handle_input", 1) = 1
    /\ Answered(1, 0) =>
         /\ pc = "done" /\ result = "ok"
         /\ ~tool_running
         /\ \A i \in DOMAIN log : log[i].run <= 1
         /\ CountRun("prepare_device_for_run", 1) = 1
         /\ CountRun("execute_run", 1) = 1
         /\ CountRun("start_trace", 1) = (IF command.event = "boot" THEN 0 ELSE 1)
         /\ CountRun("retrieve_perf_data", 1) = 1
         /\ Count("sleep") = 0
         /\ Count("cleanup") = 1
         /\ \E i \in DOMAIN log :
              /\ log[i].op = "handle_input"
              /\ log[i + 1].op = "cleanup"
              /\ log[i - 1].op = "pull_file"

C4_Witness ==
  /\ command.runs = 3 /\ 1 \in sig_wait /\ Answered(1, 0)
  /\ Count("stop_process") = 1
  /\ pc = "done"

\* C5: a boot session whose device does not report boot completion in time
\* raises a fatal fault, attempts no further run, and still invokes cleanup.
C5_BootTimeoutStillCleansUp ==
  (command.event = "boot" /\ result = "fatal_boot") =>
    /\ pc = "done"
    /\ \A i \in DOMAIN log : log[i].run <= run
    /\ Count("cleanup") >= 1

\* C6: when UserSwitchCommandExecutor's cleanup runs, it switches the device
\* to original_user exactly when the device is at another user, to no other
\* user, and original_user is the user the device was at when the command
\* was validated, before any switch was issued.
C6_CleanupRestoresOriginalUser ==
  [][ (/\ command.event = "user-switch"
       /\ Cardinality(Logged(log', "cleanup")) > Count("cleanup"))
      => LET switched == Cardinality(Logged(log', "perform_user_switch"))
                           > Count("perform_user_switch")
         IN /\ switched <=> device_user # command.original_user
            /\ switched =>
                 /\ log'[Len(log')] = Ev("perform_user_switch", command.original_user)
                 /\ pending_user' = command.original_user
            /\ ~switched => pending_user' = pending_user
            /\ log[1].op = "get_current_user"
            /\ command.original_user = log[1].arg ]_vars

C6_Witness ==
  /\ command.event = "user-switch"
  /\ command.original_user # command.from_user
  /\ \E i \in DOMAIN log :
       /\ log[i].op = "cleanup"
       /\ i < Len(log)
       /\ log[i + 1] = [op |-> "perform_user_switch", run |-> log[i].run,
                        arg |-> command.original_user]

\* C7: a session with runs = 1, profiler perfetto, event custom and the UI
\* enabled that ends without error or interrupt has started tracing once,
\* pulled one artifact, issued no reboot, user switch or app launch, invoked
\* cleanup once and opened the UI once, after cleanup.
C7_SingleCustomRun ==
  (/\ pc = "done" /\ result = "ok" /\ interrupts = 0
   /\ command.runs = 1 /\ command.profiler = "perfetto"
   /\ command.event = "custom" /\ command.use_ui)
    => /\ Count("start_trace") = 1
       /\ Count("pull_file") = 1
       /\ Count("reboot") + Count("perform_user_switch") + Count("start_package") = 0
       /\ Count("cleanup") = 1
       /\ Count("open_trace") = 1
       /\ Before("cleanup", "open_trace")
       /\ Before("pull_file", "cleanup")

C7_Witness ==
  /\ pc = "done" /\ result = "ok" /\ interrupts = 0
  /\ command.runs = 1 /\ command.profiler = "perfetto"
  /\ command.event = "custom" /\ command.use_ui
  /\ Count("open_trace") = 1

\* trigger_system_event returned an error (the launch of a service package).
TriggerFailed == \E i \in DOMAIN log : log[i].op = "start_package" /\ log[i].arg = 1

\* C8 as claimed: after a failed trigger the tool is stopped, the trigger's
\* error is the session's result, the run's artifact is not retrieved and no
\* later run takes place.
C8_TriggerErrorIsTheResult ==
  (TriggerFailed /\ pc = "done") =>
    /\ result = "err_trigger"
    /\ ~tool_running
    /\ Count("retrieve_perf_data") = 0
    /\ \A i \in DOMAIN log : log[i].run <= 1

\* C8 amended: after a failed trigger stop_process is the next and last
\* thing the executor does; when it returns the tool is stopped and the
\* trigger's error is the result; for simpleperf its bounded wait may time
\* out, and then the fatal fault is the result.  Either way no artifact is
\* retrieved and no later run is prepared or started.
C8_TriggerErrorStopsTheSession ==
  TriggerFailed =>
    /\ log[Len(log)].op = "stop_process"
    /\ log[Len(log) - 1].op = "start_package"
    /\ \A i \in DOMAIN log : log[i].run <= 1
    /\ Count("retrieve_perf_data") = 0 /\ Count("sleep") = 0
    /\ pc \in {"stop_poll", "stopped", "done"}
    /\ pc = "stopped" => ~tool_running
    /\ pc = "done" =>
         \/ result = "err_trigger" /\ ~tool_running
         \/ result = "fatal_stop" /\ command.profiler = "simpleperf"

C8_Witness ==
  /\ TriggerFailed /\ pc = "done" /\ result = "err_trigger"
  /\ command.runs = 3

\* C9 as claimed: trace_cancelled changes only in a step of the signal
\* handler.
C9_OnlyTheHandlerWrites ==
  [][trace_cancelled' # trace_cancelled => interrupts' = interrupts + 1]_vars

\* C9 amended: trace_cancelled is set only by the signal handler, which does
\* nothing else; the run loop's one write clears it, after the operator
\* answered "y" to the prompt with runs to go; no hook writes it.
C9_HandlerSetsLoopClears ==
  [][trace_cancelled' # trace_cancelled =>
       \/ /\ interrupts' = interrupts + 1
          /\ trace_cancelled'
          /\ pc' = pc /\ log' = log
       \/ /\ interrupts' = interrupts
          /\ ~trace_cancelled'
          /\ pc = "loop_tail" /\ command.runs # run
          /\ log' = log \o <<Ev("handle_input", 1), Ev("sleep", 0)>> ]_vars

C9_Witness ==
  /\ Answered(1, 1)
  /\ ~trace_cancelled
  /\ pc = "wait" /\ run = 2

\* C10: an interrupt during a run's wait only records the flag; the wait then
\* ends at its next check and execute_run goes on (the interrupt does not
\* make the executor leave it; only a device operation that raises does); a
\* tool that still runs is stopped; and when the loop decides whether to
\* continue, the run's artifact has been retrieved and the tool is stopped.
C10_InterruptDoesNotUnwind ==
  [][ /\ interrupts' # interrupts =>
           /\ trace_cancelled'
           /\ pc' = pc /\ run' = run /\ result' = result /\ log' = log
           /\ tool_running' = tool_running
      /\ (pc = "wait" /\ run \in sig_wait) =>
           /\ is_trace_cancelled
           /\ pc' # pc => pc' = "after_wait" \/ result' = "fatal_device"
      /\ (pc = "after_wait" /\ run \in sig_wait /\ pc' # pc) =>
           IF tool_running
           THEN log' = Append(log, Ev("stop_process", 0))
           ELSE log' = log /\ pc' = "finish_run"
      /\ (pc = "loop_tail" /\ run \in sig_wait) =>
           /\ ~tool_running
           /\ CountRun("retrieve_perf_data", run) = 1
           /\ CountRun("pull_file", run) = 1
           /\ \A i \in Logged(log, "stop_process"), j \in Logged(log, "pull_file") :
                log[i].run = run /\ log[j].run = run => i < j ]_vars

C10_Witness ==
  /\ pc = "loop_tail" /\ run \in sig_wait
  /\ CountRun("stop_process", run) = 1
  /\ CountRun("pull_file", run) = 1

\* What the executor and the device hold, without the history of the session
\* (interrupts, argv, poll, sig_wait).
sessionVars == <<pc, run, args, command, config, adb, trace_cancelled, result, host_file,
                 host_files,
                 polls, stop_reason, connected, deviceVars, app_installed,
                 app_is_service, log>>

\* C11: a step of the signal handler only raises the flag: it stops no
\* process, ends no session, logs nothing; delivered while the flag is set
\* it changes nothing, so two deliveries in a row leave what one leaves.
C11_SecondInterruptNoEffect ==
  [][interrupts' # interrupts =>
       /\ trace_cancelled'
       /\ pc' = pc /\ result' = result /\ log' = log
       /\ tool_running' = tool_running /\ process_exited' = process_exited
       /\ app_running' = app_running
       /\ trace_cancelled => sessionVars' = sessionVars ]_vars

C11_Witness ==
  /\ interrupts = 2 /\ trace_cancelled
  /\ Count("handle_input") = 0
  /\ pc = "wait" /\ tool_running

\* C12: when the flag is set as a run's preparation returns, the executor's
\* next step is cleanup and the return of None: the run has no execute_run,
\* tool start, trigger or retrieval, the tool is not started, and nothing
\* follows.  UserSwitchCommandExecutor's preparation, entered with the flag
\* set, issues no switch to the from-user.
C12_CancelledPreparationSkipsToCleanup ==
  [][ /\ (pc = "check_cancel" /\ trace_cancelled /\ pc' # pc) =>
           /\ pc' = "done" /\ result' = "ok"
           /\ Len(log') > Len(log)
           /\ SubSeq(log', 1, Len(log)) = log
           /\ log'[Len(log) + 1] = Ev("cleanup", 0)
           /\ \A i \in DOMAIN log' :
                log'[i].run = run =>
                  log'[i].op \in {"prepare_device_for_run", "remove_file", "set_prop",
                                  "perform_user_switch", "cleanup"}
           /\ CountRun("prepare_device_for_run", run) = 1
           /\ tool_running' = tool_running /\ process_exited' = process_exited
           /\ run' = run
      /\ (pc = "prepare_run" /\ trace_cancelled /\ pc' # pc) =>
           /\ pc' \in {"check_cancel", "done"}
           /\ pc' = "done" => result' = "fatal_device"
           /\ pending_user' = pending_user
           /\ Logged(log', "perform_user_switch") = Logged(log, "perform_user_switch")
      /\ pc = "done" => sessionVars' = sessionVars ]_vars

C12_Witness ==
  /\ command.event = "user-switch"
  /\ pc = "done" /\ result = "ok" /\ run = 1
  /\ command.from_user # device_user
  /\ Count("perform_user_switch") = 0
  /\ Count("cleanup") = 1 /\ Count("execute_run") = 0

\* C13: once verify_args has accepted the arguments, ui is true or false;
\* when --ui / --no-ui was not passed it is true exactly for runs = 1, and
\* when it was passed it is what was passed.  The command's use_ui is that
\* value.
C13_UiDefault ==
  (pc # "main" /\ result # "err_args") =>
    /\ args.ui \in {"true", "false"}
    /\ argv.ui = "none" => (args.ui = "true" <=> argv.runs = 1)
    /\ argv.ui # "none" => args.ui = argv.ui
    /\ command.use_ui = (args.ui = "true")
    /\ args.runs = argv.runs /\ command.runs = argv.runs

C13_Witness ==
  /\ argv.ui = "none" /\ argv.runs = 1
  /\ args.ui = "true"
  /\ pc = "open_ui"

\* C14: when open_trace is called, retrieve_perf_data has completed for
\* every run of the session (there is at least one), the last of them before
\* the call, and no fault or error ended the session before.
C14_UiOnlyAfterRetrieval ==
  (pc = "open_ui" \/ Count("open_trace") > 0) =>
    /\ command.runs >= 1 /\ run = command.runs
    /\ Count("retrieve_perf_data") = command.runs
    /\ Count("pull_file") = command.runs
    /\ CountRun("pull_file", run) = 1
    /\ Before("retrieve_perf_data", "open_trace")
    /\ Before("pull_file", "open_trace")
    /\ host_file = run
    /\ result \in {"pending", "ok", "err_ui"}

C14_Witness ==
  /\ Count("open_trace") = 1
  /\ command.event = "app-startup"
  /\ Count("pull_file") = 1

\* C15: when open_trace was called (all runs and cleanup done), the session
\* ends in success whether or not the viewer could be opened.
C15_UiFailureIsNotASessionFailure ==
  (pc = "done" /\ Count("open_trace") > 0) => result = "ok"

\* A list names an event twice.
HasDuplicate(list) == Len(list) # Cardinality(Range(list))

\* C16: arguments whose excluded or included ftrace list names an event
\* twice, or whose two lists share an event, are rejected by verify_args:
\* main ends with the validation error, no command is created and nothing
\* was done on the device.
C16_FtraceListsRejected ==
  (/\ \/ HasDuplicate(argv.excluded_ftrace_events)
      \/ HasDuplicate(argv.included_ftrace_events)
      \/ Range(argv.excluded_ftrace_events) \cap Range(argv.included_ftrace_events) # {}
   /\ pc # "main")
    => /\ pc = "done" /\ result = "err_args"
       /\ command = NoCommand /\ args = argv
       /\ log = <<>> /\ run = 0
       /\ device_state = "online" /\ boot_completed /\ ~boot_prop
       /\ pending_user = NoUser /\ ~tool_running /\ process_exited

C16_Witness ==
  /\ pc = "done" /\ result = "err_args"
  /\ argv.excluded_ftrace_events = <<>>
  /\ HasDuplicate(argv.included_ftrace_events)
  /\ Len(argv.included_ftrace_events) = 3

\* command.validate has returned (or raised nothing and gone on).
PreValidatePcs == {"main", "start", "root_poll", "validate"}
PreValidateResults == {"err_args", "err_connection", "fatal_root", "fatal_validate"}
Validated == pc \notin PreValidatePcs /\ result \notin PreValidateResults

\* No hook has run and the device is as it was found.
DeviceUntouched ==
  /\ \A i \in DOMAIN log : log[i].op = "get_current_user"
  /\ run = 0 /\ host_file = 0
  /\ pending_user = NoUser /\ ~tool_running /\ process_exited /\ ~boot_prop
  /\ device_state = "online" /\ boot_completed

UserSwitchInvalid ==
  \/ argv.to_user \notin DeviceUsers
  \/ argv.from_user # NoUser /\ argv.from_user \notin DeviceUsers
  \/ argv.from_user = argv.to_user
  \/ argv.from_user = NoUser /\ command.original_user = argv.to_user

\* C18: a user-switch command that validation must reject ends with the
\* validation error, execute_command is not entered and the device is
\* untouched; any other user-switch command passes validation.
C18_UserSwitchValidation ==
  (argv.event = "user-switch" /\ Validated) =>
    IF UserSwitchInvalid
    THEN pc = "done" /\ result = "err_validation" /\ DeviceUntouched
    ELSE result # "err_validation"

C18_Witness ==
  /\ argv.event = "user-switch" /\ argv.from_user = 12 /\ argv.to_user = 11
  /\ pc = "done" /\ result = "err_validation"

\* C19: validation of an app-startup command ends the session with a
\* validation error exactly when the package is not installed or is running
\* when validated; then nothing was done on the device: no tracing start, no
\* launch, no force-stop.  (Only a launch makes the package run.)
C19_AppStartupValidation ==
  (argv.event = "app-startup" /\ Validated) =>
    /\ result = "err_validation" =>
         /\ pc = "done" /\ DeviceUntouched
         /\ ~app_installed \/ app_running
         /\ Count("start_trace") = 0
         /\ Count("start_package") = 0 /\ Count("force_stop_package") = 0
    /\ result # "err_validation" =>
         /\ app_installed
         /\ Count("start_package") = 0 => ~app_running

C19_Witness ==
  /\ argv.event = "app-startup"
  /\ app_installed /\ app_running
  /\ pc = "done" /\ result = "err_validation"

\* ------------------------------------- poll_is_task_completed on its own

\* Every time at which a check can be made.
MaxElapsed == MaxTimeout + MaxInterval + MaxOvershoot

\* The calls explored: a timeout, an interval and the times at which
\* check_is_completed would return True.
PollInputs ==
  { [timed_out_limit |-> t, interval |-> i, true_at |-> s, elapsed |-> 0,
     checks |-> <<>>, returned |-> "none"] :
      t \in 0..MaxTimeout, i \in 1..MaxInterval, s \in SUBSET (1..MaxElapsed) }

PollInit ==
  /\ poll \in PollInputs
  /\ adb = NoAdb
  /\ config = NoConfig
  /\ host_files = {}
  /\ cancelled_run = NoRun
  /\ pc = "poll"
  /\ args = Arguments("custom", "perfetto", 1, "none", "default", <<>>, <<>>,
                      NoUser, NoUser)
  /\ argv = args
  /\ command = NoCommand
  /\ connected = TRUE
  /\ device_user = 0
  /\ app_installed = FALSE /\ app_running = FALSE /\ app_is_service = FALSE
  /\ run = 0
  /\ trace_cancelled = FALSE
  /\ result = "pending"
  /\ host_file = 0
  /\ polls = 0
  /\ stop_reason = "none"
  /\ interrupts = 0
  /\ device_state = "online"
  /\ boot_completed = TRUE
  /\ boot_prop = FALSE
  /\ pending_user = NoUser
  /\ tool_running = FALSE
  /\ process_exited = TRUE
  /\ log = <<>>
  /\ sig_wait = {}

\* One round of the loop of poll_is_task_completed, lines 83-88: sleep the
\* interval (the sleep may run late), check, then test the elapsed time.
PollRound ==
  /\ pc = "poll"
  /\ poll.returned = "none"
  /\ \E late \in 0..MaxOvershoot :
       LET now == poll.elapsed + poll.interval + late
           outcome == poll_round(now \in poll.true_at, now, poll.timed_out_limit)
       IN poll' = [poll EXCEPT !.elapsed = now,
                               !.checks = Append(@, now),
                               !.returned = IF outcome = "again" THEN "none"
                                            ELSE outcome]
  /\ UNCHANGED <<sessionVars, interrupts, argv, sig_wait, cancelled_run>>

PollNext == PollRound

PollSpec == PollInit /\ [][PollNext]_vars

\* The time of the last check made.
LastCheck == poll.checks[Len(poll.checks)]

\* C20 as claimed: True is returned exactly when the check was found to hold
\* before the timeout had elapsed, False exactly when the timeout elapsed
\* with no check found to hold.
C20_TrueOnlyBeforeTimeout ==
  /\ poll.returned = "true" =>
       LastCheck \in poll.true_at /\ LastCheck <= poll.timed_out_limit
  /\ poll.returned = "false" =>
       /\ \A i \in DOMAIN poll.checks : poll.checks[i] \notin poll.true_at
       /\ LastCheck > poll.timed_out_limit

\* C20 amended: the checks are made at least one interval apart, the first
\* one interval after the start; the call goes on while the last check
\* failed within the timeout; it returns True exactly when the last check
\* held, whether the timeout had elapsed by then or not, and False exactly
\* when the last check failed and was made after the timeout had elapsed.
C20_PollReportsLastCheck ==
  LET n == Len(poll.checks)
  IN /\ \A i \in 1..(n - 1) :
          /\ poll.checks[i] \notin poll.true_at
          /\ poll.checks[i] <= poll.timed_out_limit
     /\ \A i \in 1..n :
          poll.checks[i] - (IF i = 1 THEN 0 ELSE poll.checks[i - 1]) >= poll.interval
     /\ poll.returned # "none" => n >= 1
     /\ n >= 1 =>
          /\ poll.returned = "true" <=> LastCheck \in poll.true_at
          /\ poll.returned = "false" <=>
               LastCheck \notin poll.true_at /\ LastCheck > poll.timed_out_limit
          /\ poll.elapsed = LastCheck

C20_Witness ==
  /\ poll.returned = "true"
  /\ Len(poll.checks) >= 2
  /\ LastCheck > poll.timed_out_limit

\* ------------------------------------------- the claims about a session

\* The bounded waits: where the executor is while it polls, what each waits
\* for, and the fault each raises on a timeout.
WaitPcs == {"root_poll", "boot_root_poll", "boot_poll", "init_switch_poll", "stop_poll"}

Awaited ==
  CASE pc \in {"root_poll", "boot_root_poll"} -> device_state = "online"
    [] pc = "boot_poll" -> is_boot_completed
    [] pc = "init_switch_poll" -> device_user = command.from_user
    [] pc = "stop_poll" -> ~tool_running
    [] OTHER -> TRUE

TimeoutFault ==
  CASE pc \in {"root_poll", "boot_root_poll"} -> "fatal_root"
    [] pc = "boot_poll" -> "fatal_boot"
    [] pc = "init_switch_poll" -> "fatal_user_switch"
    [] pc = "stop_poll" -> "fatal_stop"
    [] OTHER -> "none"

\* The wait in progress makes the check that finds its timeout exceeded.
WaitTimesOut == pc \in WaitPcs /\ poll_is_task_completed(Awaited) = "false"

\* C21: the step in which a bounded wait finds its timeout exceeded ends the
\* session with that wait's fatal fault: the awaited operation was issued
\* once in the run and is not issued again, the wait is not started again,
\* nothing is logged or done on the device, and no hook that follows in the
\* run has been invoked.  Nothing of a later run exists.
C21_WaitTimeoutIsFatal ==
  [][ (WaitTimesOut /\ <<pc, polls>>' # <<pc, polls>>) =>
        /\ pc' = "done" /\ result' = TimeoutFault
        /\ log' = log /\ run' = run
        /\ deviceVars' = deviceVars
        /\ \A i \in DOMAIN log : log[i].run <= run
        /\ pc = "init_switch_poll" =>
             /\ CountRun("perform_user_switch", run) = 1
             /\ CountRun("execute_run", run) = 0
        /\ pc \in {"boot_root_poll", "boot_poll"} =>
             /\ CountRun("reboot", run) = 1
             /\ CountRun("retrieve_perf_data", run) = 0
        /\ pc = "stop_poll" =>
             /\ CountRun("stop_process", run) = 1
             /\ CountRun("retrieve_perf_data", run) = 0
        /\ pc = "root_poll" => log = <<>> /\ run = 0 ]_vars

C21_Witness ==
  /\ pc = "done" /\ result = "fatal_user_switch"
  /\ command.runs = 2 /\ run = 1
  /\ Count("perform_user_switch") = 1
  /\ pending_user = command.from_user

\* C22 as claimed: once validate has returned without an error, no field of
\* the command changes.
C22_CommandNeverMutated ==
  [][Validated => command' = command]_vars

\* C22 amended: once validate has returned without an error, the one field of
\* the command that changes is dur_ms, once, when create_config parses a
\* custom config file that holds a duration_ms line: it becomes the file's
\* duration, and the session goes on to prepare_device.  from_user, to_user,
\* original_user, runs and use_ui keep the values validate left.
C22_OnlyFileDurationReplacesDurMs ==
  [][Validated =>
       /\ command' = [command EXCEPT !.dur_ms = command'.dur_ms]
       /\ command'.dur_ms # command.dur_ms =>
            /\ pc = "create_config" /\ pc' = "prepare_device"
            /\ command.perfetto_config \in {"file_duration", "file_short_duration"}
            /\ command.dur_ms = argv.dur_ms
            /\ command'.dur_ms = (IF command.perfetto_config = "file_duration"
                                  THEN FileDurMs ELSE FileShortDurMs) ]_vars

C22_Witness ==
  /\ command.perfetto_config = "file_duration"
  /\ command.dur_ms = FileDurMs /\ argv.dur_ms # FileDurMs
  /\ pc = "done" /\ result = "ok" /\ Count("pull_file") = 1

\* C23: arguments with --dur-ms or --between-dur-ms below MIN_DURATION_MS are
\* rejected by verify_args, and in every session that has reached a run the
\* command's dur_ms and between_dur_ms are at least MIN_DURATION_MS, also
\* when the config is a user-supplied file.
C23_DurationsRespectLowerBound ==
  /\ (pc # "main" /\ (argv.dur_ms < MinDurationMs \/ argv.between_dur_ms < MinDurationMs))
       => pc = "done" /\ result = "err_args" /\ command = NoCommand
  /\ run >= 1 =>
       /\ command.dur_ms >= MinDurationMs
       /\ command.between_dur_ms >= MinDurationMs

\* create_config has returned.
ConfigCreated == pc \notin PreConfigPcs /\ result \notin PreConfigResults

\* C24: the config comes from the predefined builder when perfetto_config
\* names it and from the user's file otherwise.  A file with a duration_ms
\* line keeps that line as its only duration, which becomes the command's
\* (the command's own duration is not appended); a file without one gets the
\* command's duration appended.  A malformed duration_ms ends the session
\* with a validation error (a returned value, no exception), no config, no
\* hook invoked and no run started.
C24_ConfigSelection ==
  ConfigCreated =>
    /\ argv.perfetto_config = "default" =>
         /\ config.builder \in {"default", "none"}
         /\ config.builder = "none" <=> result = "err_config"
         /\ config.builder = "default" => config.durations = <<argv.dur_ms>>
         /\ command.dur_ms = argv.dur_ms
    /\ argv.perfetto_config = "file_plain" =>
         /\ config.builder = "file"
         /\ config.durations = <<argv.dur_ms>>
         /\ command.dur_ms = argv.dur_ms
    /\ argv.perfetto_config \in {"file_duration", "file_short_duration"} =>
         LET duration == IF argv.perfetto_config = "file_duration"
                         THEN FileDurMs ELSE FileShortDurMs
         IN /\ config.builder = "file"
            /\ config.durations = <<duration>>
            /\ command.dur_ms = duration
    /\ argv.perfetto_config = "file_bad_duration" =>
         /\ pc = "done" /\ result = "err_config"
         /\ result \notin FatalFaults
         /\ config = NoConfig
         /\ log = <<>> /\ DeviceUntouched

C24_Witness ==
  /\ argv.perfetto_config = "file_duration"
  /\ argv.dur_ms = DefaultDurMs
  /\ config.durations = <<FileDurMs>>
  /\ Count("start_trace") = 1

\* Where the caller of each bounded wait goes on when the wait returns True.
WaitNext ==
  CASE pc = "root_poll" -> "validate"
    [] pc = "boot_root_poll" -> "boot_poll"
    [] pc = "boot_poll" -> "wait"
    [] pc = "init_switch_poll" -> "check_cancel"
    [] pc = "stop_poll" -> "stopped"
    [] OTHER -> "none"

\* C25: an interrupt that arrives during a bounded wait only raises the
\* flag: the wait, its count of checks and the device are as they were.  A
\* round of the wait ends the same way whether the flag is raised or not:
\* it returns True when the awaited condition holds, goes round again when
\* it does not and the timeout has not elapsed, and raises the wait's fault
\* when it has; it neither reads nor writes the flag, prompts nobody and
\* cleans nothing up.
C25_CancellationDoesNotCutWaitShort ==
  [][ /\ (pc \in WaitPcs /\ interrupts' # interrupts) =>
           /\ trace_cancelled'
           /\ pc' = pc /\ polls' = polls /\ result' = result
           /\ deviceVars' = deviceVars /\ log' = log
      /\ (pc \in WaitPcs /\ <<pc, polls>>' # <<pc, polls>>) =>
           /\ trace_cancelled' = trace_cancelled
           /\ log' = log /\ deviceVars' = deviceVars
           /\ Awaited => pc' = WaitNext /\ result' = "pending"
           /\ (~Awaited /\ polls + 1 <= MaxPolls - 1) =>
                pc' = pc /\ polls' = polls + 1 /\ result' = "pending"
           /\ (~Awaited /\ polls + 1 > MaxPolls - 1) =>
                pc' = "done" /\ result' = TimeoutFault ]_vars

C25_Witness ==
  /\ command.event = "user-switch"
  /\ pc = "init_switch_poll" /\ polls = MaxPolls - 1
  /\ trace_cancelled /\ interrupts = 1
  /\ device_user = command.from_user

\* The event-specific fields of `a` match its event: user ids only with
\* user-switch, a package only with app-startup, and user-switch has its
\* to-user, app-startup its package.
EventFieldsMatch(a) ==
  /\ (a.from_user # NoUser \/ a.to_user # NoUser) => a.event = "user-switch"
  /\ a.app # NoApp => a.event = "app-startup"
  /\ a.event = "user-switch" => a.to_user # NoUser
  /\ a.event = "app-startup" => a.app # NoApp

ConnectedSerials == {"SOMEDEVICE1234", "device2:5678", "device3"}
SerialValues == {NoSerial, "SOMEDEVICE1234", "device2:5678", "invalid-device-serial"}

\* The calls explored: the devices adb lists, the serial AdbDevice was
\* constructed with (--serial) and ANDROID_SERIAL.  `given` keeps the
\* constructor's argument.
ConnectionInputs ==
  { [devices |-> d, serial |-> s, given |-> s, android_serial |-> e,
     error |-> "pending"] :
      d \in SUBSET ConnectedSerials, s \in SerialValues, e \in SerialValues }

\* Mutant of check_device_connection: ANDROID_SERIAL is looked at before the
\* serial the device was constructed with.
check_device_connection_env_first(devices, serial, android_serial) ==
  IF devices = {} THEN [error |-> "err_connection", serial |-> serial]
  ELSE IF android_serial # NoSerial
  THEN (IF android_serial \notin devices
        THEN [error |-> "err_connection", serial |-> serial]
        ELSE [error |-> "ok", serial |-> android_serial])
  ELSE IF serial # NoSerial
  THEN (IF serial \notin devices
        THEN [error |-> "err_connection", serial |-> serial]
        ELSE [error |-> "ok", serial |-> serial])
  ELSE IF Cardinality(devices) = 1
  THEN [error |-> "ok", serial |-> CHOOSE d \in devices : TRUE]
  ELSE [error |-> "err_connection", serial |-> serial]

\* AdbDevice.check_device_connection: the error it returns ("ok": None) and
\* self.serial as it leaves it.
check_device_connection(devices, serial, android_serial) ==
  IF devices = {} THEN [error |-> "err_connection", serial |-> serial]
  ELSE IF serial # NoSerial
  THEN (IF serial \notin devices
        THEN [error |-> "err_connection", serial |-> serial]
        ELSE [error |-> "ok", serial |-> serial])
  ELSE IF android_serial # NoSerial
  THEN (IF android_serial \notin devices
        THEN [error |-> "err_connection", serial |-> serial]
        ELSE [error |-> "ok", serial |-> android_serial])
  ELSE IF Cardinality(devices) = 1
  THEN [error |-> "ok", serial |-> CHOOSE d \in devices : TRUE]
  ELSE [error |-> "err_connection", serial |-> serial]

ConnectionInit ==
  /\ adb \in ConnectionInputs
  /\ pc = "check_device_connection"
  /\ poll = NoPoll
  /\ config = NoConfig
  /\ host_files = {}
  /\ cancelled_run = NoRun
  /\ args = Arguments("custom", "perfetto", 1, "none", "default", <<>>, <<>>,
                      NoUser, NoUser)
  /\ argv = args
  /\ command = NoCommand
  /\ connected = (adb.devices # {})
  /\ device_user = 0
  /\ app_installed = FALSE /\ app_running = FALSE /\ app_is_service = FALSE
  /\ run = 0
  /\ trace_cancelled = FALSE
  /\ result = "pending"
  /\ host_file = 0
  /\ polls = 0
  /\ stop_reason = "none"
  /\ interrupts = 0
  /\ device_state = "online"
  /\ boot_completed = TRUE
  /\ boot_prop = FALSE
  /\ pending_user = NoUser
  /\ tool_running = FALSE
  /\ process_exited = TRUE
  /\ log = <<>>
  /\ sig_wait = {}

\* The call of check_device_connection.
CheckDeviceConnection ==
  /\ pc = "check_device_connection"
  /\ LET checked == check_device_connection(adb.devices, adb.serial, adb.android_serial)
     IN /\ adb' = [adb EXCEPT !.error = checked.error, !.serial = checked.serial]
        /\ pc' = "done"
        /\ result' = checked.error
  /\ UNCHANGED <<run, command, trace_cancelled, host_file, polls, stop_reason,
                 interrupts, args, argv, poll, config, host_files, cancelled_run, connected, deviceVars,
                 app_installed, app_is_service, log, sig_wait>>

ConnectionNext == CheckDeviceConnection

ConnectionSpec == ConnectionInit /\ [][ConnectionNext]_vars

C28_FtraceEventsOfPredefinedConfig ==
  (ConfigCreated /\ argv.perfetto_config = "default") =>
    LET excluded == Range(argv.excluded_ftrace_events)
        included == Range(argv.included_ftrace_events)
        rejected == \/ \E e \in excluded : e \notin PredefinedFtraceEvents
                    \/ \E e \in included : e \in PredefinedFtraceEvents
    IN /\ rejected =>
            /\ pc = "done" /\ result = "err_config"
            /\ config = NoConfig
            /\ DeviceUntouched
            /\ Count("prepare_device") = 0 /\ Count("cleanup") = 0
       /\ ~rejected =>
            /\ result # "err_config"
            /\ config.builder = "default"
            /\ \A e \in excluded : config.ftrace_events[e] = 0
            /\ \A e \in included : config.ftrace_events[e] = 1
            /\ \A e \in PredefinedFtraceEvents \ excluded : config.ftrace_events[e] = 1
            /\ \A e \in FtraceEvents \ (PredefinedFtraceEvents \cup included) :
                 config.ftrace_events[e] = 0

C28_Witness ==
  /\ argv.excluded_ftrace_events = <<"power/cpu_idle">>
  /\ argv.included_ftrace_events = <<"mock-ftrace-event">>
  /\ config.builder = "default"
  /\ config.ftrace_events["power/cpu_idle"] = 0
  /\ config.ftrace_events["mock-ftrace-event"] = 1
  /\ Count("start_trace") = 1

\* C29: when a device operation of a hook raises (the step leaves the hook
\* without having done anything), execute is left with that exception, not
\* with a returned error: the run has no hook after the failing one, no
\* artifact of the run is retrieved, cleanup is not invoked, the UI is not
\* opened and no later run exists.
C29_DeviceExceptionPropagates ==
  [][ (pc \in DeviceFaultPcs /\ pc' = "done" /\ log' = log) =>
        /\ result = "pending" /\ result' = "fatal_device"
        /\ result' \in FatalFaults
        /\ run' = run /\ deviceVars' = deviceVars
        /\ trace_cancelled' = trace_cancelled
        /\ \A i \in DOMAIN log : log[i].run <= run
        /\ CountRun("retrieve_perf_data", run) = 0 /\ CountRun("pull_file", run) = 0
        /\ CountRun("sleep", run) = 0
        /\ Count("cleanup") = 0 /\ Count("open_trace") = 0
        /\ pc = "prepare_run" => CountRun("prepare_device_for_run", run) = 0
        /\ pc \in {"prepare_run", "execute_run"} =>
             CountRun("execute_run", run) = 0 /\ CountRun("start_trace", run) = 0
      ]_vars

C29_Witness ==
  /\ pc = "done" /\ result = "fatal_device"
  /\ command.runs = 3 /\ run = 2
  /\ CountRun("start_trace", 2) = 1
  /\ Count("pull_file") = 1

\* C30: the one hook of the run loop that returns a validation error is
\* execute_run, with the error of trigger_system_event.  Once it has
\* returned it the session is over with that error as its result: the run
\* has no force-stop, retrieval or delay, no later run exists, cleanup's
\* switch back and the UI are not reached; every delay slept belongs to an
\* earlier run.
C30_ValidationErrorAbortsSession ==
  /\ (TriggerFailed /\ pc \notin {"stop_poll", "stopped"}) =>
       pc = "done" /\ result \in {"err_trigger", "fatal_stop"}
  /\ result = "err_trigger" =>
       /\ pc = "done" /\ TriggerFailed
       /\ result \notin FatalFaults
       /\ log[Len(log)].op = "stop_process" /\ log[Len(log)].run = run
       /\ \A i \in DOMAIN log : log[i].run <= run
       /\ CountRun("force_stop_package", run) = 0
       /\ CountRun("retrieve_perf_data", run) = 0 /\ CountRun("pull_file", run) = 0
       /\ CountRun("sleep", run) = 0 /\ Count("sleep") = run - 1
       /\ Count("open_trace") = 0
       /\ host_file = run

C30_Witness ==
  /\ pc = "done" /\ result = "err_trigger"
  /\ command.profiler = "simpleperf" /\ command.runs = 2
  /\ ~tool_running
  /\ Count("stop_process") = 1

\* ------------------------------------------------ the claims about a run

\* Where BootCommandExecutor.execute_run is once wait_for_boot_to_complete
\* has returned, up to the retrieval of the run's artifact.
BootCompletedPcs == {"wait", "after_wait", "stop_poll", "stopped", "finish_run",
                     "retrieve"}

\* C31: in a boot session every run goes: set the boot-trace property, reboot,
\* wait for the device to be back on adb, root, wait for boot completion,
\* wait for the trace.  The wait for the trace ends only with the device
\* booted and the tool gone from the device or the flag raised; the artifact
\* is retrieved only after boot completion was observed; the executor never
\* starts the tool itself: it comes up with the rebooted device.
C31_BootRunOrder ==
  [][ command.event = "boot" =>
        /\ (pc = "prepare_run" /\ pc' = "check_cancel") =>
             /\ log'[Len(log')] = Ev("set_prop", 0)
             /\ boot_prop'
        /\ (pc = "execute_run" /\ pc' # pc) =>
             \/ /\ pc' = "wait_for_device"
                /\ log' = log \o <<Ev("execute_run", 0), Ev("reboot", 0)>>
                /\ log[Len(log)] = Ev("set_prop", 0)
                /\ device_state' = "rebooting"
             \/ pc' = "done" /\ result' = "fatal_device"
        /\ (pc = "wait_for_device" /\ pc' # pc) =>
             pc' = "boot_root_poll" /\ device_state = "online"
        /\ (pc = "boot_root_poll" /\ pc' # pc) =>
             \/ pc' = "boot_poll" /\ device_state = "online"
             \/ pc' = "done" /\ result' = "fatal_root"
        /\ (pc = "boot_poll" /\ pc' # pc) =>
             \/ pc' = "wait" /\ device_state = "online" /\ boot_completed
             \/ pc' = "done" /\ result' = "fatal_boot"
        /\ (pc = "wait" /\ pc' # pc) =>
             \/ /\ pc' = "after_wait"
                /\ device_state = "online" /\ boot_completed
                /\ ~tool_running \/ trace_cancelled
             \/ pc' = "done" /\ result' = "fatal_device"
        /\ pc \in BootCompletedPcs =>
             /\ device_state = "online" /\ boot_completed
             /\ CountRun("set_prop", run) = 1 /\ CountRun("reboot", run) = 1
        /\ Cardinality(Logged(log', "pull_file")) > Count("pull_file") =>
             /\ pc = "retrieve"
             /\ device_state = "online" /\ boot_completed
             /\ \A i \in Logged(log, "set_prop"), j \in Logged(log, "reboot") :
                  log[i].run = log[j].run => i < j
        /\ Cardinality(Logged(log', "start_trace")) = 0
        /\ (tool_running' /\ ~tool_running) =>
             pc' = pc /\ device_state = "rebooting" /\ boot_prop ]_vars

C31_Witness ==
  /\ command.event = "boot" /\ command.runs = 2
  /\ Count("reboot") = 2 /\ Count("pull_file") = 2
  /\ Count("stop_process") = 1
  /\ pc = "done" /\ result = "ok"

\* The launches of the package that succeeded (am start wrote no error).
Launches == {i \in Logged(log, "start_package") : log[i].arg = 0}

\* The package was force-stopped in launch i's run, after the launch and
\* after the run's tool was stopped, if it was.
ForceStoppedAfter(i) ==
  \E j \in Logged(log, "force_stop_package") :
    /\ j > i /\ log[j].run = log[i].run
    /\ \A k \in Logged(log, "stop_process") : log[k].run = log[i].run => k < j

\* C32: in an app-startup session every launch that succeeded is followed by
\* a force-stop of the package in the same run, once the run's trace is over,
\* by the time the run's artifact is retrieved, hence before a later run and
\* before execute returns a value; only a fault raised in the run leaves the
\* package running.  The package is not running when a run launches it.
C32_LaunchIsFollowedByForceStop ==
  command.event = "app-startup" =>
    /\ \A i \in Launches :
         (\/ log[i].run < run
          \/ pc \in {"retrieve", "loop_tail", "open_ui"}
          \/ pc = "done" /\ result \notin FatalFaults) => ForceStoppedAfter(i)
    /\ \A i \in Launches : CountRun("start_package", log[i].run) = 1
    /\ \A r \in 1..run : CountRun("force_stop_package", r) <= 1
    /\ pc \in {"prepare_run", "check_cancel", "execute_run", "trigger"} => ~app_running
    /\ (pc = "done" /\ result \notin FatalFaults /\ run >= 1) => ~app_running

C32_Witness ==
  /\ command.event = "app-startup" /\ command.runs = 3
  /\ Cardinality(Launches) = 3
  /\ Count("force_stop_package") = 2
  /\ pc = "wait" /\ app_running
  /\ sig_wait = {1}

\* execute_command, lines 114-116: the file handed to open_trace, the raw
\* trace for perfetto and the gecko trace otherwise, named at the top of the
\* last run of the loop.
ui_trace_file ==
  [run |-> host_file,
   kind |-> IF command.profiler = "perfetto" THEN "raw" ELSE "gecko"]

\* C33: when the UI is opened, the file handed to the viewer is on the host,
\* left there by the retrieval of the last run: the raw trace for perfetto,
\* the converted trace for simpleperf, whatever the event.
C33_UiOpensRetrievedArtifact ==
  (pc = "open_ui" \/ Count("open_trace") > 0) =>
    /\ ui_trace_file \in host_files
    /\ ui_trace_file.run = run /\ run = command.runs
    /\ ui_trace_file.kind = (IF command.profiler = "perfetto" THEN "raw" ELSE "gecko")
    /\ CountRun("pull_file", run) = 1

\* The prompts answered "y" so far, in history l.
Continued(l) == {i \in Logged(l, "handle_input") : l[i].arg = 1}

\* C34: when the operator answers "y" to the prompt that follows a cancelled
\* run, the loop clears the flag, then sleeps the delay and goes on to the
\* next run's preparation.  After that only a new interrupt raises the flag
\* again (each "y" uses up at least one interrupt), so a later run's wait
\* ends only with the tool gone or with such a new interrupt, and a session
\* with no further interrupt and no fault performs every remaining run in
\* full, as an uncancelled session does.
C34_ContinueClearsCancellation ==
  [][ /\ (pc = "loop_tail" /\ trace_cancelled /\ pc' = "sleep") =>
           /\ ~trace_cancelled'
           /\ log' = log \o <<Ev("handle_input", 1), Ev("sleep", 0)>>
           /\ result' = "pending" /\ deviceVars' = deviceVars
      /\ (pc = "sleep" /\ pc' # pc) =>
           /\ run' = run + 1 /\ pc' = "prepare_run"
           /\ trace_cancelled' = trace_cancelled /\ log' = log
      /\ (trace_cancelled' /\ ~trace_cancelled) => interrupts' = interrupts + 1
      /\ trace_cancelled' => interrupts' > Cardinality(Continued(log'))
      /\ (pc = "wait" /\ pc' = "after_wait") =>
           \/ IF command.event = "boot" THEN ~tool_running ELSE process_exited
           \/ trace_cancelled /\ interrupts > Cardinality(Continued(log))
      /\ (pc' = "done" /\ result' = "ok" /\ Continued(log') # {}
          /\ interrupts' = Cardinality(Continued(log'))) =>
           /\ HookTrace' = ExpectedHooks(1, command.runs)
           /\ \A r \in 1..command.runs :
                Cardinality({i \in Logged(log', "start_trace") : log'[i].run = r})
                  = (IF command.event = "boot" THEN 0 ELSE 1)
           /\ Cardinality(Logged(log', "cleanup")) = 1 ]_vars

C34_Witness ==
  /\ command.runs = 3 /\ sig_wait = {1} /\ interrupts = 1
  /\ Answered(1, 1)
  /\ pc = "done" /\ result = "ok"
  /\ Count("stop_process") = 1
  /\ Count("pull_file") = 3 /\ Count("sleep") = 2

\* The flag is raised and was raised in the current run after the check that
\* follows the run's preparation (line 88), i.e. during execute_run or later:
\* a flag raised before that check sends the run to cleanup with no
\* execute_run.
MidRunCancelled ==
  /\ trace_cancelled /\ run >= 1 /\ cancelled_run = run
  /\ pc = "execute_run" \/ CountRun("execute_run", run) = 1

\* How execute leaves a run other than by going on: an exception, or the
\* error of the trigger.
RunFailed == result \in FatalFaults \cup {"err_trigger"}

PreparationPcs == {"sleep", "prepare_run", "init_switch_poll", "check_cancel"}

\* The flag is raised and was raised during the delay that follows a run or
\* during the next run's preparation, before that run's check of line 88.
CancelledBetweenRuns ==
  /\ trace_cancelled
  /\ \/ pc = "sleep"
     \/ /\ run >= 2 /\ cancelled_run \in {run - 1, run}
        /\ pc # "execute_run" /\ CountRun("execute_run", run) = 0

\* The run's preparation was executed and nothing else of the run; the
\* session is over with cleanup as its last hook and None as its result.
EndedInCleanup ==
  /\ pc = "done" /\ result = "ok"
  /\ CountRun("prepare_device_for_run", run) = 1 /\ CountRun("remove_file", run) = 1
  /\ \A i \in DOMAIN log :
       /\ log[i].run <= run
       /\ log[i].run = run =>
            log[i].op \in {"prepare_device_for_run", "remove_file", "set_prop",
                           "perform_user_switch", "cleanup"}
  /\ Count("cleanup") = 1 /\ Before("prepare_device_for_run", "cleanup")
  /\ CountRun("start_trace", run) = 0 /\ CountRun("handle_input", run) = 0
  /\ Count("retrieve_perf_data") = run - 1 /\ Count("sleep") = run - 1
  /\ Count("open_trace") = 0
  /\ ~tool_running

\* C36: an interrupt delivered during the delay between two runs, or later
\* up to the check that follows the next run's preparation, raises the flag,
\* and nothing clears it before that check; the delay is slept to its end.  The preparation is carried out (a preparation that
\* raises ends the session with its fault); the check then sends the
\* executor to cleanup and the session returns None: the run starts no
\* tool, issues no trigger, retrieves nothing, nobody is prompted, and no
\* remaining run is attempted.
C36_InterruptBetweenRunsIsKept ==
  [][ /\ (pc \in PreparationPcs /\ interrupts' # interrupts) =>
           trace_cancelled' /\ pc' = pc /\ log' = log
      /\ (pc \in PreparationPcs /\ trace_cancelled) =>
           /\ trace_cancelled'
           /\ pc' \in PreparationPcs \cup {"done"}
           /\ pc' = "done" => result' \in {"ok", "fatal_device", "fatal_user_switch"}
      /\ (pc = "sleep" /\ pc' # pc) =>
           /\ pc' = "prepare_run" /\ run' = run + 1
           /\ trace_cancelled' = trace_cancelled
      /\ CancelledBetweenRuns' =>
           /\ pc' \in PreparationPcs \cup {"done"}
           /\ (pc' = "done" /\ result' \notin FatalFaults) => EndedInCleanup' ]_vars

C36_Witness ==
  /\ CancelledBetweenRuns /\ EndedInCleanup
  /\ command.runs = 3 /\ run = 2
  /\ cancelled_run = 1
  /\ command.event = "boot"
  /\ interrupts = 1

\* ------------------------------------------------------------ termination

\* The steps of the executor itself, from main to the return of execute.
ExecutorNext ==
  \/ Main
  \/ Execute \/ RootPoll \/ Validate \/ CreateConfig \/ PrepareDevice
  \/ PrepareDeviceForRun \/ InitUserSwitchPoll \/ CheckCancel
  \/ StartTrace \/ TriggerSystemEvent \/ WaitForTrace \/ AfterWait
  \/ StopPoll \/ Stopped \/ FinishRun
  \/ BootTrigger \/ WaitForDevice \/ BootRootPoll \/ WaitForBootToComplete
  \/ RetrievePerfData \/ NextRun \/ EndSleep \/ Cleanup \/ OpenUi

\* The runs of a session that is followed to its end.
MaxLiveRuns == 2

\* The sessions followed to their end: those of accepted arguments with the
\* predefined config, no ftrace lists and the default durations (none of
\* which plays a part in a wait); --ui is left out, and a user switch is
\* passed --no-ui and goes from user 10 to user 11.  They have at most
\* MaxLiveRuns runs, start with the device at user 0 and, for an app
\* startup, with the package installed and stopped.
LiveInit ==
  /\ Init
  /\ args \in AcceptedArguments
  /\ args.runs <= MaxLiveRuns
  /\ args.perfetto_config = "default"
  /\ args.excluded_ftrace_events = <<>> /\ args.included_ftrace_events = <<>>
  /\ args.dur_ms = DefaultDurMs /\ args.between_dur_ms = DefaultDurMs
  /\ IF args.event = "user-switch"
     THEN args.ui = "false" /\ args.from_user = 10 /\ args.to_user = 11
     ELSE args.ui = "none"
  /\ device_user = 0
  /\ args.event = "app-startup" => app_installed /\ ~app_running

\* The sessions in which the executor goes on whenever it can: a statement
\* that is not blocked is executed, a sleep ends, a poll makes its next
\* check.  Nothing is assumed of the device, the tool or the operator.
LiveSpec == LiveInit /\ [][Next]_vars /\ WF_vars(ExecutorNext)

\* What wait_for_trace waits for, written out: the tracing process has
\* exited (boot: the profiler has no pid on the device) or the flag is set.
WaitOver ==
  \/ trace_cancelled
  \/ IF command.event = "boot" THEN ~tool_running ELSE process_exited

\* The wait for the trace never ends: the tool never exits and no interrupt
\* arrives.
WaitsForEver == <>[](pc = "wait" /\ ~WaitOver)

C38_StopsExactlyARunningTool ==
  [][ /\ (pc = "after_wait" /\ pc' # pc) =>
           /\ tool_running <=> log' = Append(log, Ev("stop_process", 0))
           /\ ~tool_running =>
                /\ log' = log /\ pc' = "finish_run"
                /\ tool_running' = tool_running /\ result' = result
           /\ (tool_running /\ command.profiler = "perfetto") =>
                ~tool_running' /\ pc' = "stopped"
           /\ (tool_running /\ command.profiler = "simpleperf") =>
                pc' = "stop_poll" /\ stop_reason' = "after_wait"
      /\ (pc = "stop_poll" /\ pc' # pc) =>
           \/ pc' = "stopped" /\ ~tool_running /\ result' = result
           \/ pc' = "done" /\ result' = "fatal_stop"
      /\ (pc = "stopped" /\ stop_reason = "after_wait" /\ pc' # pc) =>
           pc' = "finish_run" /\ ~tool_running
      /\ pc \in {"stopped", "finish_run", "retrieve", "loop_tail"} => ~tool_running
      /\ Cardinality(Logged(log', "pull_file")) > Count("pull_file") =>
           /\ ~tool_running
           /\ CountRun("stop_process", run) <= 1
      /\ (pc \notin {"after_wait", "trigger"}) =>
           Logged(log', "stop_process") = Logged(log, "stop_process") ]_vars

C38_Witness ==
  /\ command.profiler = "simpleperf" /\ command.runs = 2
  /\ sig_wait = {1}
  /\ CountRun("stop_process", 1) = 1 /\ CountRun("stop_process", 2) = 0
  /\ CountRun("pull_file", 1) = 1 /\ CountRun("pull_file", 2) = 1
  /\ pc = "done" /\ result = "ok"

\* C39: arguments with --runs below 1, or with --ui and --runs above 1, are
\* rejected by verify_args; in the arguments it accepts runs >= 1 and ui is
\* true only with runs = 1 (its default is true exactly then), and the
\* command carries both.  So the loop of execute_command has at least one
\* iteration (cleanup never runs with no run prepared before it), and the UI
\* is opened at most once, in single-run sessions only.
C39_UiOnlyInSingleRunSessions ==
  /\ (pc # "main" /\ (argv.runs < 1 \/ (argv.runs > 1 /\ argv.ui = "true"))) =>
       pc = "done" /\ result = "err_args" /\ command = NoCommand
  /\ (pc # "main" /\ result # "err_args") =>
       /\ args.runs >= 1
       /\ args.ui = "true" => args.runs = 1
       /\ argv.ui = "none" => (args.ui = "true" <=> args.runs = 1)
       /\ command.runs = args.runs /\ command.use_ui = (args.ui = "true")
       /\ command.use_ui => command.runs = 1
  /\ run \in 0..command.runs
  /\ (Count("prepare_device") > 0 /\ result \notin FatalFaults) => run >= 1
  /\ (pc = "loop_tail" \/ Count("cleanup") > 0) =>
       /\ run >= 1
       /\ CountRun("prepare_device_for_run", 1) = 1
  /\ Count("open_trace") <= 1
  /\ (pc = "open_ui" \/ Count("open_trace") = 1) =>
       command.runs = 1 /\ command.use_ui /\ run = 1

C39_Witness ==
  /\ argv.ui = "none" /\ argv.runs = 1 /\ argv.event = "app-startup"
  /\ command.use_ui /\ command.runs = 1
  /\ Count("open_trace") = 1 /\ Count("cleanup") = 1
  /\ pc = "done" /\ result = "ok"

\* C40: poll_is_task_completed sleeps one interval before every check, the
\* first included, and makes at least one check before it returns, whatever
\* the timeout (0 included); a check that finds the predicate true returns
\* True even when made after the timeout has elapsed; and as every round
\* advances the time by at least the interval, the call makes at most
\* timeout / interval + 1 checks.
C40_PollChecksAtLeastOnceAndBounded ==
  LET n == Len(poll.checks)
  IN /\ n >= 1 => poll.checks[1] >= poll.interval
     /\ \A i \in 2..n : poll.checks[i] >= poll.checks[i - 1] + poll.interval
     /\ \A i \in 1..n : poll.checks[i] >= i * poll.interval
     /\ poll.returned # "none" => n >= 1
     /\ (n >= 1 /\ LastCheck \in poll.true_at) => poll.returned = "true"
     /\ n <= (poll.timed_out_limit \div poll.interval) + 1
     /\ (poll.returned = "none" /\ n >= 1) => LastCheck <= poll.timed_out_limit

C40_Witness ==
  /\ poll.timed_out_limit = 0
  /\ poll.returned = "true"
  /\ Len(poll.checks) = 1
  /\ LastCheck > poll.interval

====
